---- MODULE Spec2Model ----
(***************************************************************************)
(* Gingoduino harmonic core: GingoMonitor (active-pitch set, sustain,      *)
(* change-triggered callbacks), GingoMIDI1 dispatcher and                  *)
(* GingoMIDI1Parser byte-stream parser.                                    *)
(***************************************************************************)
EXTENDS Integers, Sequences, FiniteSets, TLC

(***************************************************************************)
(* Program constants                                                       *)
(***************************************************************************)
MAX_HELD == 16

\* CHORD_FORMULAS: semitone offsets of the 42 chord types, in table order.
CHORD_FORMULAS ==
  << {0, 4, 7}, {0, 4, 7, 11}, {0, 4, 7, 9}, {0, 4, 7, 9, 14},
     {0, 4, 7, 11, 14}, {0, 3, 7}, {0, 3, 7, 10}, {0, 3, 7, 9},
     {0, 3, 7, 10, 17}, {0, 3, 7, 11}, {0, 4, 7, 10}, {0, 4, 7, 10, 14},
     {0, 4, 7, 10, 14, 17}, {0, 3, 6}, {0, 3, 6, 9}, {0, 3, 6, 10},
     {0, 4, 8}, {0, 4, 8, 10}, {0, 4, 6, 10}, {0, 4, 7, 10, 14, 17, 21},
     {0, 4, 7, 10, 14, 18, 21}, {0, 4, 8, 10}, {0, 4, 7, 10, 15},
     {0, 4, 7, 10, 13}, {0, 4, 7, 10, 18}, {0, 7}, {0, 4, 7, 14},
     {0, 2, 4, 7}, {0, 4, 7, 17}, {0, 4, 5, 7}, {0, 2, 7}, {0, 5, 7},
     {0, 5, 7, 10}, {0, 5, 7, 14}, {0, 3, 7, 10, 14, 17, 21},
     {0, 4, 7, 11, 14, 18, 21}, {0, 5, 7}, {0, 3, 7, 10, 14},
     {0, 4, 8, 11}, {0, 3, 7, 10, 17}, {0, 4, 7, 13}, {0, 4, 7, 20} >>

\* SCALE_MASKS, bits 0..11 (bit N set = semitone N active), types 0 and 1.
SCALE_MASKS ==
  << {0, 2, 4, 5, 7, 9, 11}, {0, 2, 4, 6, 7, 9, 11} >>

(***************************************************************************)
(* Input sets of the model                                                 *)
(***************************************************************************)
\* Keys the Monitor is driven with: C4, Eb4, E4, G4, Ab4.  The player keeps
\* the keys that are down within one hand position.
Pitches == {60, 63, 64, 67, 68}

HandPositions == { {60, 64, 67, 68}, {60, 63, 67} }

\* Velocities passed to noteOn (the Monitor ignores them, and lastOp does
\* not record them).
Velocities == {1, 100}

\* Keys of the capacity scenario: MAX_HELD + 1 distinct keys, pressed in
\* this order.
CapKeys ==
  << 60, 67, 64, 61, 62, 63, 65, 66, 68, 69, 70, 71, 72, 73, 74, 75, 76 >>

\* Keys of the callback-registration scenario.
RegPitches == {60, 67}

\* MIDI 1.0 status bytes.
NOTE_OFF == 128
NOTE_ON == 144
AFTERTOUCH == 160
CONTROL_CHANGE == 176
PROGRAM_CHANGE == 192
CHANNEL_PRESSURE == 208
PITCH_BEND == 224
SYSEX_START == 240
SYSTEM_COMMON == 241
SYSEX_END == 247
REAL_TIME == 248

\* Bytes fed to the parser in free exploration, and the longest freely
\* explored stream.
FeedBytes ==
  { NOTE_OFF, NOTE_ON, CONTROL_CHANGE, PROGRAM_CHANGE, SYSEX_START,
    SYSTEM_COMMON, SYSEX_END, REAL_TIME, 0, 60, 64, 100, 123 }

MaxFree == 4

\* Entry of the fed history that stands for a call of reset().
RESET_MARK == 256

\* Byte streams of the test suite, explored in full.
RunningStatusStream == << NOTE_ON, 60, 100, 64, 100, 67, 100 >>

SysexStream == << SYSEX_START, 126, 1, REAL_TIME, SYSEX_END, NOTE_ON, 60, 100 >>

TestStreams == { RunningStatusStream, SysexStream }

(***************************************************************************)
(* State                                                                   *)
(***************************************************************************)
VARIABLES
  held_,         \* held_[0 .. heldCount_-1], as a sequence
  sustained_,    \* sustained_[MAX_HELD], indexed 1..MAX_HELD
  sustainHeld_,  \* sustain latch
  chord_,        \* cached chord
  chordValid_,
  field_,        \* cached field
  fieldValid_,
  chordCb_, fieldCb_, noteCb_,   \* function-pointer callbacks (TRUE = set)
  chordFn_, fieldFn_, noteFn_,   \* std::function callbacks (TRUE = set)
  trace,         \* oracle calls and callbacks of the last operation
  lastOp,        \* the last operation executed, with its return value
  status_,       \* parser: running status byte (0 = none)
  data1_,        \* parser: first data byte accumulated
  count_,        \* parser: data bytes received for the current message
  inSysex_,      \* parser: 1 while absorbing SysEx bytes
  fed,           \* history: bytes fed to the parser since construction
  dispatched     \* history: messages the parser passed to dispatch

monState == << held_, sustained_, sustainHeld_, chord_, chordValid_,
               field_, fieldValid_ >>
monCbs == << chordCb_, fieldCb_, noteCb_, chordFn_, fieldFn_, noteFn_ >>
parserVars == << status_, data1_, count_, inSysex_, fed, dispatched >>
vars == << held_, sustained_, sustainHeld_, chord_, chordValid_,
           field_, fieldValid_, chordCb_, fieldCb_, noteCb_,
           chordFn_, fieldFn_, noteFn_, trace, lastOp,
           status_, data1_, count_, inSysex_, fed, dispatched >>

heldCount_ == Len(held_)

(***************************************************************************)
(* Collaborators whose code is outside the analysed files                  *)
(***************************************************************************)
\* Value of a default-constructed GingoChord / GingoField.
DefaultChord == [root |-> 255, type |-> 255]

DefaultField == [tonic |-> 255, type |-> 255]

\* GingoChord::identify: the first held note is the root; the set of
\* semitone offsets from the root is looked up in CHORD_FORMULAS.
FormulaMatches(held) ==
  LET offs == {(held[i] - held[1]) % 12 : i \in 1..Len(held)}
  IN {k \in 1..Len(CHORD_FORMULAS) :
        {x % 12 : x \in CHORD_FORMULAS[k]} = offs}

Least(S) == CHOOSE x \in S : \A y \in S : x <= y

identify(held) ==
  LET ms == FormulaMatches(held)
  IN IF ms = {} THEN [ok |-> FALSE, chord |-> DefaultChord]
     ELSE [ok |-> TRUE,
           chord |-> [root |-> held[1] % 12, type |-> Least(ms) - 1]]

\* GingoField::deduce with maxResults = 1: the candidates are the
\* (tonic, scale type) pairs whose scale contains every held pitch class;
\* the top-ranked one is the first in (tonic, type) order.
ScaleOf(tonic, type) == {(tonic + x) % 12 : x \in SCALE_MASKS[type + 1]}

FieldCandidates(held) ==
  {c \in (0..11) \X (0..(Len(SCALE_MASKS) - 1)) :
     \A i \in 1..Len(held) : (held[i] % 12) \in ScaleOf(c[1], c[2])}

deduce(held) ==
  LET cs == FieldCandidates(held)
      best == CHOOSE c \in cs :
                \A d \in cs : c[1] < d[1] \/ (c[1] = d[1] /\ c[2] <= d[2])
  IN IF cs = {} THEN [found |-> 0, field |-> DefaultField]
     ELSE [found |-> 1, field |-> [tonic |-> best[1], type |-> best[2]]]

\* GingoField::noteContext: degree of the note in the field's scale.
noteContext(field, midiNum) ==
  LET inScale == (midiNum % 12) \in ScaleOf(field.tonic, field.type)
      deg == Cardinality({x \in SCALE_MASKS[field.type + 1] :
                            x <= (midiNum - field.tonic) % 12})
  IN [note |-> midiNum, degree |-> IF inScale THEN deg ELSE 0,
      inScale |-> inScale]

(***************************************************************************)
(* GingoMonitor, as operators on the Monitor record                        *)
(***************************************************************************)
Mon ==
  [held |-> held_, sustained |-> sustained_, sustainHeld |-> sustainHeld_,
   chord |-> chord_, chordValid |-> chordValid_,
   field |-> field_, fieldValid |-> fieldValid_,
   chordCb |-> chordCb_, fieldCb |-> fieldCb_, noteCb |-> noteCb_,
   chordFn |-> chordFn_, fieldFn |-> fieldFn_, noteFn |-> noteFn_,
   trace |-> trace]

Event(ev, arg, to) == [ev |-> ev, arg |-> arg, to |-> to]

Invoked(cb, fn) ==
  (IF cb THEN << "cb" >> ELSE << >>) \o (IF fn THEN << "fn" >> ELSE << >>)

fireChord_(m, c) ==
  [m EXCEPT !.trace = Append(@, Event("chord", c, Invoked(m.chordCb, m.chordFn)))]

fireField_(m, f) ==
  [m EXCEPT !.trace = Append(@, Event("field", f, Invoked(m.fieldCb, m.fieldFn)))]

fireNote_(m, ctx) ==
  [m EXCEPT !.trace = Append(@, Event("note", ctx, Invoked(m.noteCb, m.noteFn)))]

\* Result: ok, chord, and the Monitor with the oracle call logged.
buildChordFromHeld_(m) ==
  IF Len(m.held) < 2
  THEN [ok |-> FALSE, chord |-> DefaultChord, mon |-> m]
  ELSE LET r == identify(m.held)
       IN [ok |-> r.ok, chord |-> r.chord,
           mon |-> [m EXCEPT !.trace = Append(@, Event("identify", r, << >>))]]

deduceFieldFromHeld_(m) ==
  IF Len(m.held) < 1
  THEN [ok |-> FALSE, field |-> DefaultField, mon |-> m]
  ELSE LET r == deduce(m.held)
       IN [ok |-> r.found # 0, field |-> r.field,
           mon |-> [m EXCEPT !.trace = Append(@, Event("deduce", r, << >>))]]

\* Variant of analyseChord_ that fires on every change of the chord state,
\* also when the chord became invalid.
analyseChord_FiresInvalid(m) ==
  LET b == buildChordFromHeld_(m)
      chordChanged ==
        IF b.ok # m.chordValid THEN TRUE
        ELSE IF b.ok /\ m.chordValid THEN b.chord # m.chord
        ELSE FALSE
      m1 == [b.mon EXCEPT !.chord = b.chord, !.chordValid = b.ok]
  IN IF chordChanged THEN fireChord_(m1, m1.chord) ELSE b.mon

\* Variant of analyseChord_ that compares validity only, never the name.
analyseChord_ValidityOnly(m) ==
  LET b == buildChordFromHeld_(m)
      m1 == [b.mon EXCEPT !.chord = b.chord, !.chordValid = b.ok]
  IN IF b.ok # m.chordValid
     THEN (IF m1.chordValid THEN fireChord_(m1, m1.chord) ELSE m1)
     ELSE b.mon

analyseChord_(m) ==
  LET b == buildChordFromHeld_(m)
      newChordValid == b.ok
      chordChanged ==
        IF newChordValid # m.chordValid THEN TRUE
        ELSE IF newChordValid /\ m.chordValid THEN b.chord # m.chord
        ELSE FALSE
      m1 == [b.mon EXCEPT !.chord = b.chord, !.chordValid = newChordValid]
  IN IF chordChanged
     THEN (IF m1.chordValid THEN fireChord_(m1, m1.chord) ELSE m1)
     ELSE b.mon

\* Variant of analyseField_ without the final branch: an invalid chord
\* leaves the field as it was.
analyseField_KeepsField(m) ==
  IF m.chordValid
  THEN LET d == deduceFieldFromHeld_(m)
           fieldChanged ==
             IF d.ok # m.fieldValid THEN TRUE
             ELSE IF d.ok /\ m.fieldValid
                  THEN (d.field.tonic # m.field.tonic
                        \/ d.field.type # m.field.type)
             ELSE FALSE
           m1 == [d.mon EXCEPT !.field = d.field, !.fieldValid = d.ok]
       IN IF fieldChanged
          THEN (IF m1.fieldValid THEN fireField_(m1, m1.field) ELSE m1)
          ELSE d.mon
  ELSE m

\* Variant of analyseField_ that compares validity only, never the tonic
\* and scale type.
analyseField_ValidityOnly(m) ==
  IF m.chordValid
  THEN LET d == deduceFieldFromHeld_(m)
           m1 == [d.mon EXCEPT !.field = d.field, !.fieldValid = d.ok]
       IN IF d.ok # m.fieldValid
          THEN (IF m1.fieldValid THEN fireField_(m1, m1.field) ELSE m1)
          ELSE d.mon
  ELSE IF ~m.chordValid /\ m.fieldValid
       THEN [m EXCEPT !.fieldValid = FALSE]
       ELSE m

analyseField_(m) ==
  IF m.chordValid
  THEN LET d == deduceFieldFromHeld_(m)
           newFieldValid == d.ok
           fieldChanged ==
             IF newFieldValid # m.fieldValid THEN TRUE
             ELSE IF newFieldValid /\ m.fieldValid
                  THEN (d.field.tonic # m.field.tonic
                        \/ d.field.type # m.field.type)
             ELSE FALSE
           m1 == [d.mon EXCEPT !.field = d.field, !.fieldValid = newFieldValid]
       IN IF fieldChanged
          THEN (IF m1.fieldValid THEN fireField_(m1, m1.field) ELSE m1)
          ELSE d.mon
  ELSE IF ~m.chordValid /\ m.fieldValid
       THEN [m EXCEPT !.fieldValid = FALSE]
       ELSE m

analyse_(m) == analyseField_(analyseChord_(m))

Begin(m) == [m EXCEPT !.trace = << >>]

\* Index of the first entry holding midiNum, 0 if none.
IndexOf(held, midiNum) ==
  IF \E i \in 1..Len(held) : held[i] = midiNum
  THEN Least({i \in 1..Len(held) : held[i] = midiNum})
  ELSE 0

\* Variant of noteOnAdd_ that stores the new pitch in front of the others.
noteOnAdd_Prepends(m, midiNum) ==
  LET m2 == IF Len(m.held) < MAX_HELD
            THEN [m EXCEPT !.sustained =
                             [i \in 1..MAX_HELD |->
                                IF i = 1 THEN FALSE ELSE m.sustained[i - 1]],
                           !.held = << midiNum >> \o @]
            ELSE m
  IN analyse_(m2)

\* Variant of noteOnAdd_ that leaves the flag of the new slot as it finds it.
noteOnAdd_KeepsFlag(m, midiNum) ==
  LET m2 == IF Len(m.held) < MAX_HELD
            THEN [m EXCEPT !.held = Append(@, midiNum)]
            ELSE m
  IN analyse_(m2)

\* Variant of noteOnAdd_ without the capacity test.
noteOnAdd_Unbounded(m, midiNum) ==
  analyse_([m EXCEPT !.sustained[Len(m.held) + 1] = FALSE,
                     !.held = Append(@, midiNum)])

noteOnAdd_(m, midiNum) ==
  LET i == IndexOf(m.held, midiNum)
      m1 == IF i # 0 THEN [m EXCEPT !.sustained[i] = FALSE] ELSE m
      m2 == IF Len(m1.held) < MAX_HELD
            THEN [m1 EXCEPT !.sustained[Len(m1.held) + 1] = FALSE,
                            !.held = Append(@, midiNum)]
            ELSE m1
  IN analyse_(m2)

\* Variant of noteOn that treats every pitch as new.
noteOn_AlwaysNew(m0, midiNum, velocity) ==
  LET m1 == noteOnAdd_(Begin(m0), midiNum)
      ctx == IF m1.fieldValid THEN noteContext(m1.field, midiNum)
             ELSE [note |-> midiNum, degree |-> 0, inScale |-> FALSE]
  IN fireNote_(m1, ctx)

\* Variant of noteOn that fires the per-note callback for new pitches only.
noteOn_NoteIfNew(m0, midiNum, velocity) ==
  LET m == Begin(m0)
      isNew == \A i \in 1..Len(m.held) : m.held[i] # midiNum
      m1 == IF isNew THEN noteOnAdd_(m, midiNum) ELSE m
      ctx == IF m1.fieldValid THEN noteContext(m1.field, midiNum)
             ELSE [note |-> midiNum, degree |-> 0, inScale |-> FALSE]
  IN IF isNew /\ Len(m1.held) > Len(m.held) THEN fireNote_(m1, ctx) ELSE m1

\* Variant of noteOn that fires the per-note callback before re-evaluating.
noteOn_NoteFirst(m0, midiNum, velocity) ==
  LET m == Begin(m0)
      isNew == \A i \in 1..Len(m.held) : m.held[i] # midiNum
      ctx == IF m.fieldValid THEN noteContext(m.field, midiNum)
             ELSE [note |-> midiNum, degree |-> 0, inScale |-> FALSE]
      m1 == fireNote_(m, ctx)
  IN IF isNew THEN noteOnAdd_(m1, midiNum) ELSE m1

noteOn(m0, midiNum, velocity) ==
  LET m == Begin(m0)
      isNew == \A i \in 1..Len(m.held) : m.held[i] # midiNum
      m1 == IF isNew THEN noteOnAdd_(m, midiNum) ELSE m
      ctx == IF m1.fieldValid THEN noteContext(m1.field, midiNum)
             ELSE [note |-> midiNum, degree |-> 0, inScale |-> FALSE]
  IN fireNote_(m1, ctx)

\* Compaction loop shared by noteOff and sustainOff: keep[i] says whether
\* entry i survives; flag(i) is the value written to its new slot.
RECURSIVE Compact(_, _, _, _, _, _)
Compact(held, sust, keep, flag, i, acc) ==
  IF i > Len(held) THEN acc
  ELSE IF keep[i]
       THEN Compact(held, sust, keep, flag, i + 1,
                    [held |-> Append(acc.held, held[i]),
                     sustained |-> [acc.sustained EXCEPT
                                      ![Len(acc.held) + 1] = flag[i]]])
       ELSE Compact(held, sust, keep, flag, i + 1, acc)

\* Variant of noteOff that ignores the sustain latch.
noteOff_NoLatch(m0, midiNum) ==
  LET m == Begin(m0)
      c == Compact(m.held, m.sustained,
                   [i \in 1..Len(m.held) |-> m.held[i] # midiNum],
                   [i \in 1..Len(m.held) |-> m.sustained[i]],
                   1, [held |-> << >>, sustained |-> m.sustained])
  IN analyse_([m EXCEPT !.held = c.held, !.sustained = c.sustained])

noteOff(m0, midiNum) ==
  LET m == Begin(m0)
  IN IF m.sustainHeld
     THEN LET i == IndexOf(m.held, midiNum)
          IN IF i # 0 THEN [m EXCEPT !.sustained[i] = TRUE] ELSE m
     ELSE LET c == Compact(m.held, m.sustained,
                           [i \in 1..Len(m.held) |-> m.held[i] # midiNum],
                           [i \in 1..Len(m.held) |-> m.sustained[i]],
                           1, [held |-> << >>, sustained |-> m.sustained])
          IN analyse_([m EXCEPT !.held = c.held, !.sustained = c.sustained])

sustainOn(m0) == [Begin(m0) EXCEPT !.sustainHeld = TRUE]

sustainOff(m0) ==
  LET m == [Begin(m0) EXCEPT !.sustainHeld = FALSE]
      c == Compact(m.held, m.sustained,
                   [i \in 1..Len(m.held) |-> ~m.sustained[i]],
                   [i \in 1..Len(m.held) |-> FALSE],
                   1, [held |-> << >>, sustained |-> m.sustained])
  IN analyse_([m EXCEPT !.held = c.held, !.sustained = c.sustained])

\* Variant of reset that leaves the sustain latch and flags alone.
reset_KeepsSustain(m0) ==
  [Begin(m0) EXCEPT !.held = << >>, !.chordValid = FALSE,
                    !.fieldValid = FALSE]

reset(m0) ==
  [Begin(m0) EXCEPT !.held = << >>, !.chordValid = FALSE,
                    !.fieldValid = FALSE, !.sustainHeld = FALSE,
                    !.sustained = [i \in 1..MAX_HELD |-> FALSE]]

\* --- Callbacks that call back into the Monitor ---
\* A registered function-pointer callback is user code running inside
\* fireChord_ / fireField_.  Its body is either nothing, << "none", 0 >>, or
\* one intent on the Monitor that fired it: << "noteOn", p >>,
\* << "noteOff", p >> or << "sustainOff", 0 >>.  The callbacks fired by that
\* intent do nothing.
Intent(m, call) ==
  IF call[1] = "noteOn" THEN noteOn(m, call[2], 100)
  ELSE IF call[1] = "noteOff" THEN noteOff(m, call[2])
  ELSE IF call[1] = "sustainOff" THEN sustainOff(m)
  ELSE m

\* The callback cb runs with the body call, after the event that invoked it
\* was logged: the intent acts on the Monitor as the caller left it, and its
\* own events are logged between "enter" and "leave".
Callback(m, cb, call) ==
  IF cb /\ call[1] # "none"
  THEN CHOOSE x \in
         { [r EXCEPT !.trace = m.trace \o << Event("enter", call, << >>) >>
                                  \o r.trace
                                  \o << Event("leave", call, << >>) >>] :
             r \in {Intent(m, call)} } : TRUE
  ELSE m

\* analyse_ with the callbacks running: fireChord_ and fireField_ are the
\* last step of the chord part and of the field part.
analyseCalling_(m, onChord, onField) ==
  CHOOSE x \in
    { IF Len(f[2].trace) > Len(f[1].trace)
           /\ f[2].trace[Len(f[2].trace)].ev = "field"
      THEN Callback(f[2], f[2].fieldCb, onField) ELSE f[2] :
        f \in { << c1, analyseField_(c1) >> :
                  c1 \in { IF Len(c.trace) > Len(m.trace)
                                /\ c.trace[Len(c.trace)].ev = "chord"
                           THEN Callback(c, c.chordCb, onChord) ELSE c :
                             c \in {analyseChord_(m)} } } } : TRUE

\* noteOn, noteOff and sustainOff with the callbacks running.
noteOnCalling(m0, midiNum, onChord, onField) ==
  LET m == Begin(m0)
      isNew == \A i \in 1..Len(m.held) : m.held[i] # midiNum
      m2 == IF Len(m.held) < MAX_HELD
            THEN [m EXCEPT !.sustained[Len(m.held) + 1] = FALSE,
                           !.held = Append(@, midiNum)]
            ELSE m
  IN CHOOSE x \in
       { fireNote_(m1, IF m1.fieldValid THEN noteContext(m1.field, midiNum)
                       ELSE [note |-> midiNum, degree |-> 0,
                             inScale |-> FALSE]) :
           m1 \in { IF isNew THEN analyseCalling_(m2, onChord, onField)
                    ELSE m } } : TRUE

noteOffCalling(m0, midiNum, onChord, onField) ==
  LET m == Begin(m0)
  IN IF m.sustainHeld THEN noteOff(m0, midiNum)
     ELSE LET c == Compact(m.held, m.sustained,
                           [i \in 1..Len(m.held) |-> m.held[i] # midiNum],
                           [i \in 1..Len(m.held) |-> m.sustained[i]],
                           1, [held |-> << >>, sustained |-> m.sustained])
          IN analyseCalling_([m EXCEPT !.held = c.held,
                                       !.sustained = c.sustained],
                             onChord, onField)

sustainOffCalling(m0, onChord, onField) ==
  LET m == [Begin(m0) EXCEPT !.sustainHeld = FALSE]
      c == Compact(m.held, m.sustained,
                   [i \in 1..Len(m.held) |-> ~m.sustained[i]],
                   [i \in 1..Len(m.held) |-> FALSE],
                   1, [held |-> << >>, sustained |-> m.sustained])
  IN analyseCalling_([m EXCEPT !.held = c.held, !.sustained = c.sustained],
                     onChord, onField)

(***************************************************************************)
(* GingoMIDI1::dispatch and GingoMIDI1Parser                               *)
(***************************************************************************)
\* status & 0xF0
TypeOf(status) == (status \div 16) * 16

\* Result of a dispatcher call that issued the Monitor intent name(a, b),
\* which left the Monitor as mon.
Issue(name, a, b, mon) ==
  [handled |-> TRUE, intent |-> << << name, a, b >> >>, mon |-> mon]

\* Result of a dispatcher call that classified nothing.
Unhandled(m) == [handled |-> FALSE, intent |-> << >>, mon |-> m]

\* Variant of dispatch that compares the whole status byte.
dispatch_WholeStatus(status, data1, data2, m) ==
  IF status = NOTE_ON
  THEN (IF data2 > 0
        THEN Issue("noteOn", data1, data2, noteOn(m, data1, data2))
        ELSE Issue("noteOff", data1, 0, noteOff(m, data1)))
  ELSE IF status = NOTE_OFF
  THEN Issue("noteOff", data1, 0, noteOff(m, data1))
  ELSE IF status = CONTROL_CHANGE /\ data1 = 64
  THEN (IF data2 >= 64 THEN Issue("sustainOn", 0, 0, sustainOn(m))
        ELSE Issue("sustainOff", 0, 0, sustainOff(m)))
  ELSE IF status = CONTROL_CHANGE /\ data1 = 123
  THEN Issue("reset", 0, 0, reset(m))
  ELSE Unhandled(m)

\* Variant of dispatch that treats every controller as the sustain pedal.
dispatch_AnyController(status, data1, data2, m) ==
  LET type == TypeOf(status)
  IN IF type = NOTE_ON
     THEN (IF data2 > 0
           THEN Issue("noteOn", data1, data2, noteOn(m, data1, data2))
           ELSE Issue("noteOff", data1, 0, noteOff(m, data1)))
     ELSE IF type = NOTE_OFF
     THEN Issue("noteOff", data1, 0, noteOff(m, data1))
     ELSE IF type = CONTROL_CHANGE /\ data1 = 123
     THEN Issue("reset", 0, 0, reset(m))
     ELSE IF type = CONTROL_CHANGE
     THEN (IF data2 >= 64 THEN Issue("sustainOn", 0, 0, sustainOn(m))
           ELSE Issue("sustainOff", 0, 0, sustainOff(m)))
     ELSE Unhandled(m)

dispatch(status, data1, data2, m) ==
  LET type == TypeOf(status)
  IN IF type = NOTE_ON
     THEN (IF data2 > 0
           THEN Issue("noteOn", data1, data2, noteOn(m, data1, data2))
           ELSE Issue("noteOff", data1, 0, noteOff(m, data1)))
     ELSE IF type = NOTE_OFF
     THEN Issue("noteOff", data1, 0, noteOff(m, data1))
     ELSE IF type = CONTROL_CHANGE /\ data1 = 64
     THEN (IF data2 >= 64 THEN Issue("sustainOn", 0, 0, sustainOn(m))
           ELSE Issue("sustainOff", 0, 0, sustainOff(m)))
     ELSE IF type = CONTROL_CHANGE /\ data1 = 123
     THEN Issue("reset", 0, 0, reset(m))
     ELSE Unhandled(m)

(***************************************************************************)
(* GingoMIDI2::dispatch                                                    *)
(***************************************************************************)
\* A 32-bit word is the pair << high half, low half >> of 16-bit numbers.
\* (w >> lo) & (2^n - 1), for a field that lies within one half.
Bits(w, lo, n) ==
  IF lo >= 16 THEN (w[1] \div 2^(lo - 16)) % 2^n ELSE (w[2] \div 2^lo) % 2^n

\* w >= v, unsigned.
AtLeast(w, v) == w[1] > v[1] \/ (w[1] = v[1] /\ w[2] >= v[2])

\* 0x80000000U
HIGH_BIT == << 32768, 0 >>

\* Variant of dispatchMT2_ that keeps bit 7 of the data2 byte.
dispatchMT2_WideData(w0, m) ==
  LET opcode == Bits(w0, 20, 4)
      data1 == Bits(w0, 8, 7)
      data2 == Bits(w0, 0, 8)
  IN IF opcode = 9 /\ data2 > 0
     THEN Issue("noteOn", data1, data2, noteOn(m, data1, data2))
     ELSE IF opcode = 8 \/ (opcode = 9 /\ data2 = 0)
     THEN Issue("noteOff", data1, 0, noteOff(m, data1))
     ELSE IF opcode = 11 /\ data1 = 64
     THEN (IF data2 >= 64 THEN Issue("sustainOn", 0, 0, sustainOn(m))
           ELSE Issue("sustainOff", 0, 0, sustainOff(m)))
     ELSE IF opcode = 11 /\ data1 = 123
     THEN Issue("reset", 0, 0, reset(m))
     ELSE Unhandled(m)

\* MT = 0x2: MIDI 1.0 channel voice message in one word.
dispatchMT2_(w0, m) ==
  LET opcode == Bits(w0, 20, 4)
      data1 == Bits(w0, 8, 7)
      data2 == Bits(w0, 0, 7)
  IN IF opcode = 9 /\ data2 > 0
     THEN Issue("noteOn", data1, data2, noteOn(m, data1, data2))
     ELSE IF opcode = 8 \/ (opcode = 9 /\ data2 = 0)
     THEN Issue("noteOff", data1, 0, noteOff(m, data1))
     ELSE IF opcode = 11 /\ data1 = 64
     THEN (IF data2 >= 64 THEN Issue("sustainOn", 0, 0, sustainOn(m))
           ELSE Issue("sustainOff", 0, 0, sustainOff(m)))
     ELSE IF opcode = 11 /\ data1 = 123
     THEN Issue("reset", 0, 0, reset(m))
     ELSE Unhandled(m)

\* Variant of dispatchMT4Note_ that tests the 7-bit velocity for zero.
dispatchMT4Note_TestsVel7(opcode, index, w1, m) ==
  LET vel16 == Bits(w1, 16, 16)
      vel7 == (vel16 \div 2^9) % 256
  IN IF opcode = 9 /\ vel7 > 0
     THEN Issue("noteOn", index, vel7, noteOn(m, index, vel7))
     ELSE Issue("noteOff", index, 0, noteOff(m, index))

\* MT = 0x4, opcode Note On or Note Off.
dispatchMT4Note_(opcode, index, w1, m) ==
  LET vel16 == Bits(w1, 16, 16)
      vel7 == (vel16 \div 2^9) % 256
  IN IF opcode = 9 /\ vel16 > 0
     THEN Issue("noteOn", index, vel7, noteOn(m, index, vel7))
     ELSE Issue("noteOff", index, 0, noteOff(m, index))

\* Variant of dispatchMT4CC_ that takes any non-zero value as pedal down.
dispatchMT4CC_NonZero(index, val, m) ==
  IF index = 64
  THEN (IF AtLeast(val, << 0, 1 >>) THEN Issue("sustainOn", 0, 0, sustainOn(m))
        ELSE Issue("sustainOff", 0, 0, sustainOff(m)))
  ELSE IF index = 123
  THEN Issue("reset", 0, 0, reset(m))
  ELSE Unhandled(m)

\* Variant of dispatchMT4CC_ that resets only when bit 31 of the value is set.
dispatchMT4CC_ResetOnHighBit(index, val, m) ==
  IF index = 64
  THEN (IF AtLeast(val, HIGH_BIT) THEN Issue("sustainOn", 0, 0, sustainOn(m))
        ELSE Issue("sustainOff", 0, 0, sustainOff(m)))
  ELSE IF index = 123 /\ AtLeast(val, HIGH_BIT)
  THEN Issue("reset", 0, 0, reset(m))
  ELSE Unhandled(m)

\* MT = 0x4, opcode Control Change.
dispatchMT4CC_(index, val, m) ==
  IF index = 64
  THEN (IF AtLeast(val, HIGH_BIT) THEN Issue("sustainOn", 0, 0, sustainOn(m))
        ELSE Issue("sustainOff", 0, 0, sustainOff(m)))
  ELSE IF index = 123
  THEN Issue("reset", 0, 0, reset(m))
  ELSE Unhandled(m)

\* MT = 0x4: MIDI 2.0 channel voice message in two words.
dispatchMT4_(words, m) ==
  LET opcode == Bits(words[1], 20, 4)
      index == Bits(words[1], 8, 7)
  IN IF opcode = 9 \/ opcode = 8
     THEN dispatchMT4Note_(opcode, index, words[2], m)
     ELSE IF opcode = 11
     THEN dispatchMT4CC_(index, words[2], m)
     ELSE Unhandled(m)

GingoMIDI2_dispatch(words, m) ==
  LET mt == Bits(words[1], 28, 4)
  IN IF mt = 2 THEN dispatchMT2_(words[1], m)
     ELSE IF mt = 4 THEN dispatchMT4_(words, m)
     ELSE Unhandled(m)

\* Variant of dataLength_ that expects two data bytes under every status.
dataLength_AlwaysTwo(status) == 2

dataLength_(status) ==
  IF TypeOf(status) \in {PROGRAM_CHANGE, CHANNEL_PRESSURE} THEN 1 ELSE 2

Parser ==
  [status |-> status_, data1 |-> data1_, count |-> count_,
   inSysex |-> inSysex_]

\* Result of feed: the parser, the Monitor, the return value and the
\* messages passed to dispatch.
FeedResult(ps, m, handled, sent) ==
  [parser |-> ps, mon |-> m, handled |-> handled, sent |-> sent]

\* Result of a feed that called dispatch, which returned d.
Dispatched(ps, d, sent) == FeedResult(ps, d.mon, d.handled, sent)

\* Variant of feedData_ that forgets the status after a two-byte message.
feedData_NoRunningStatus(ps, b, m) ==
  IF ps.status = 0 THEN FeedResult(ps, m, FALSE, << >>)
  ELSE IF ps.count = 0
  THEN (IF dataLength_(ps.status) = 1
        THEN Dispatched(ps, dispatch(ps.status, b, 0, m),
                        << << ps.status, b, 0 >> >>)
        ELSE FeedResult([ps EXCEPT !.data1 = b, !.count = 1], m, FALSE, << >>))
  ELSE Dispatched([ps EXCEPT !.count = 0, !.status = 0],
                  dispatch(ps.status, ps.data1, b, m),
                  << << ps.status, ps.data1, b >> >>)

\* Variant of feedData_ that accumulates without a running status.
feedData_Unsynchronized(ps, b, m) ==
  IF ps.count = 0
  THEN (IF dataLength_(ps.status) = 1
        THEN Dispatched(ps, dispatch(ps.status, b, 0, m),
                        << << ps.status, b, 0 >> >>)
        ELSE FeedResult([ps EXCEPT !.data1 = b, !.count = 1], m, FALSE, << >>))
  ELSE Dispatched([ps EXCEPT !.count = 0],
                  dispatch(ps.status, ps.data1, b, m),
                  << << ps.status, ps.data1, b >> >>)

feedData_(ps, b, m) ==
  IF ps.status = 0 THEN FeedResult(ps, m, FALSE, << >>)
  ELSE IF ps.count = 0
  THEN (IF dataLength_(ps.status) = 1
        THEN Dispatched(ps, dispatch(ps.status, b, 0, m),
                        << << ps.status, b, 0 >> >>)
        ELSE FeedResult([ps EXCEPT !.data1 = b, !.count = 1], m, FALSE, << >>))
  ELSE Dispatched([ps EXCEPT !.count = 0],
                  dispatch(ps.status, ps.data1, b, m),
                  << << ps.status, ps.data1, b >> >>)

\* Variant of feed in which a status byte keeps the pending data count.
feed_StatusKeepsCount(ps, b, m) ==
  IF b >= REAL_TIME THEN FeedResult(ps, m, FALSE, << >>)
  ELSE IF b = SYSEX_END
  THEN FeedResult([ps EXCEPT !.inSysex = 0], m, FALSE, << >>)
  ELSE IF b = SYSEX_START
  THEN FeedResult([ps EXCEPT !.inSysex = 1, !.count = 0], m, FALSE, << >>)
  ELSE IF ps.inSysex # 0 THEN FeedResult(ps, m, FALSE, << >>)
  ELSE IF b >= SYSTEM_COMMON
  THEN FeedResult([ps EXCEPT !.status = 0, !.count = 0], m, FALSE, << >>)
  ELSE IF b >= 128
  THEN FeedResult([ps EXCEPT !.status = b], m, FALSE, << >>)
  ELSE feedData_(ps, b, m)

\* Variant of feed that does not absorb the bytes inside a SysEx.
feed_NoAbsorb(ps, b, m) ==
  IF b >= REAL_TIME THEN FeedResult(ps, m, FALSE, << >>)
  ELSE IF b = SYSEX_END
  THEN FeedResult([ps EXCEPT !.inSysex = 0], m, FALSE, << >>)
  ELSE IF b = SYSEX_START
  THEN FeedResult([ps EXCEPT !.inSysex = 1, !.count = 0], m, FALSE, << >>)
  ELSE IF b >= SYSTEM_COMMON
  THEN FeedResult([ps EXCEPT !.status = 0, !.count = 0], m, FALSE, << >>)
  ELSE IF b >= 128
  THEN FeedResult([ps EXCEPT !.status = b, !.count = 0], m, FALSE, << >>)
  ELSE feedData_(ps, b, m)

\* Variant of feed in which a real-time byte restarts the current message.
feed_RealTimeRestarts(ps, b, m) ==
  IF b >= REAL_TIME THEN FeedResult([ps EXCEPT !.count = 0], m, FALSE, << >>)
  ELSE IF b = SYSEX_END
  THEN FeedResult([ps EXCEPT !.inSysex = 0], m, FALSE, << >>)
  ELSE IF b = SYSEX_START
  THEN FeedResult([ps EXCEPT !.inSysex = 1, !.count = 0], m, FALSE, << >>)
  ELSE IF ps.inSysex # 0 THEN FeedResult(ps, m, FALSE, << >>)
  ELSE IF b >= SYSTEM_COMMON
  THEN FeedResult([ps EXCEPT !.status = 0, !.count = 0], m, FALSE, << >>)
  ELSE IF b >= 128
  THEN FeedResult([ps EXCEPT !.status = b, !.count = 0], m, FALSE, << >>)
  ELSE feedData_(ps, b, m)

feed(ps, b, m) ==
  IF b >= REAL_TIME THEN FeedResult(ps, m, FALSE, << >>)
  ELSE IF b = SYSEX_END
  THEN FeedResult([ps EXCEPT !.inSysex = 0], m, FALSE, << >>)
  ELSE IF b = SYSEX_START
  THEN FeedResult([ps EXCEPT !.inSysex = 1, !.count = 0], m, FALSE, << >>)
  ELSE IF ps.inSysex # 0 THEN FeedResult(ps, m, FALSE, << >>)
  ELSE IF b >= SYSTEM_COMMON
  THEN FeedResult([ps EXCEPT !.status = 0, !.count = 0], m, FALSE, << >>)
  ELSE IF b >= 128
  THEN FeedResult([ps EXCEPT !.status = b, !.count = 0], m, FALSE, << >>)
  ELSE feedData_(ps, b, m)

parserReset(ps) == [status |-> 0, data1 |-> 0, count |-> 0, inSysex |-> 0]

(***************************************************************************)
(* GingoChordComparison::compute                                           *)
(***************************************************************************)
\* GingoChord accessors: a chord [root, type] has the notes root + interval
\* for the intervals of CHORD_FORMULAS[type], in table order.
FormulaSeq(type) ==
  LET S == CHORD_FORMULAS[type + 1]
  IN [i \in 1..Cardinality(S) |->
        CHOOSE x \in S : Cardinality({y \in S : y < x}) = i - 1]

\* chord.notes(): the semitone of each note.
chordNotes(c) ==
  [i \in 1..Len(FormulaSeq(c.type)) |-> c.root + FormulaSeq(c.type)[i]]

\* chord.size()
chordSize(c) == Len(FormulaSeq(c.type))

\* Pitch classes of the notes, notes[i].semitone() % 12.
PitchClasses(c) == [i \in 1..chordSize(c) |-> chordNotes(c)[i] % 12]

\* A 12-bit mask is the set of its set bits, a subset of 0..11.
pcMaskFromChord_(c) == {PitchClasses(c)[i] : i \in 1..chordSize(c)}

intervalMaskFromChord_(c) ==
  {((PitchClasses(c)[i] - (c.root % 12)) + 12) % 12 : i \in 1..chordSize(c)}

popcount12_(mask) == Cardinality(mask \cap (0..11))

chromaticDist_(a, b) ==
  LET d == (b + 12 - a) % 12
  IN IF d > 6 THEN 12 - d ELSE d

\* Variant of rotatePc_ that rotates downward: bit i to bit (i - n) mod 12.
rotatePc_Downward(mask, n) ==
  {(i + 12 - (n % 12)) % 12 : i \in mask \cap (0..11)}

rotatePc_(mask, n) == {(i + (n % 12)) % 12 : i \in mask \cap (0..11)}

\* Variant of computeIntervalVector_ that does not fold distances above 6.
computeIntervalVector_Unfolded(pc_mask) ==
  [k \in 1..6 |->
     Cardinality({p \in pc_mask \X pc_mask : p[1] < p[2] /\ p[2] - p[1] = k})]

\* iv[0..5] as a sequence 1..6: iv[k] counts the pairs i < j of set bits
\* with interval class k.
computeIntervalVector_(pc_mask) ==
  [k \in 1..6 |->
     Cardinality({p \in pc_mask \X pc_mask :
                    /\ p[1] < p[2]
                    /\ (IF p[2] - p[1] > 6 THEN 12 - (p[2] - p[1])
                        ELSE p[2] - p[1]) = k})]

\* Variant of transposition_ that keeps the last matching n.
transposition_LastMatch(pcA, pcB) ==
  LET ns == {n \in 0..11 : rotatePc_(pcA, n) = pcB}
  IN IF ns = {} THEN -1 ELSE CHOOSE n \in ns : \A k \in ns : k <= n

\* The first n in 0..11 with rotatePc_(pcA, n) = pcB, -1 if there is none.
transposition_(pcA, pcB) ==
  LET ns == {n \in 0..11 : rotatePc_(pcA, n) = pcB}
  IN IF ns = {} THEN -1 ELSE Least(ns)

\* ChordSubsetRelation
CHORD_SUBSET_NONE == 0
CHORD_SUBSET_A_IN_B == 1
CHORD_SUBSET_B_IN_A == 2
CHORD_SUBSET_EQUAL == 3

\* Variant of subset_ that tests for equality last.
subset_EqualLast(pcA, pcB) ==
  IF (pcA \cap pcB) = pcA THEN CHORD_SUBSET_A_IN_B
  ELSE IF (pcA \cap pcB) = pcB THEN CHORD_SUBSET_B_IN_A
  ELSE IF pcA = pcB THEN CHORD_SUBSET_EQUAL
  ELSE CHORD_SUBSET_NONE

subset_(pcA, pcB) ==
  IF pcA = pcB THEN CHORD_SUBSET_EQUAL
  ELSE IF (pcA \cap pcB) = pcA THEN CHORD_SUBSET_A_IN_B
  ELSE IF (pcA \cap pcB) = pcB THEN CHORD_SUBSET_B_IN_A
  ELSE CHORD_SUBSET_NONE

\* Insertion sort: the last element is inserted after the elements of the
\* sorted prefix that are not greater than it.
RECURSIVE sortU8_(_)
sortU8_(a) ==
  IF Len(a) <= 1 THEN a
  ELSE LET pre == sortU8_(SubSeq(a, 1, Len(a) - 1))
           key == a[Len(a)]
           k == Cardinality({i \in 1..Len(pre) : pre[i] <= key})
       IN SubSeq(pre, 1, k) \o << key >> \o SubSeq(pre, k + 1, Len(pre))

\* Next lexicographic permutation; ok is FALSE at the last one.
nextPerm_(a) ==
  LET n == Len(a)
      rises == {i \in 1..(n - 1) : a[i] < a[i + 1]}
      i == CHOOSE x \in rises : \A y \in rises : y <= x
      above == {x \in 1..n : a[x] > a[i]}
      j == CHOOSE x \in above : \A y \in above : y <= x
      swapped == [a EXCEPT ![i] = a[j], ![j] = a[i]]
  IN IF rises = {} THEN [ok |-> FALSE, a |-> a]
     ELSE [ok |-> TRUE,
           a |-> [x \in 1..n |-> IF x <= i THEN swapped[x]
                                 ELSE swapped[n + i + 1 - x]]]

\* sum of chromaticDist_(pcA[i], pcB[i]) from position i on
RECURSIVE pairingSum_(_, _, _)
pairingSum_(pcA, pcB, i) ==
  IF i > Len(pcA) THEN 0
  ELSE chromaticDist_(pcA[i], pcB[i]) + pairingSum_(pcA, pcB, i + 1)

\* One pass of the do-while body of computeVoiceLeading_: the state is the
\* permutation in pcB, the running minSum and whether the loop goes on.
loopBody_(pcA, s) ==
  LET sum == pairingSum_(pcA, s.pcB, 1)
      minSum == IF sum < s.minSum THEN sum ELSE s.minSum
      nx == nextPerm_(s.pcB)
  IN IF sum < s.minSum /\ minSum = 0
     THEN [pcB |-> s.pcB, minSum |-> 0, again |-> FALSE]
     ELSE [pcB |-> nx.a, minSum |-> minSum, again |-> nx.ok]

\* At most n blocks of passes of the loop; a block of depth 0 is one pass, a
\* block of depth d + 1 is up to 16 blocks of depth d.
RECURSIVE loopPasses_(_, _, _, _)
loopPasses_(pcA, s, depth, n) ==
  IF n = 0 \/ ~s.again THEN s
  ELSE CHOOSE r \in
         { loopPasses_(pcA, t, depth, n - 1) :
             t \in { IF depth = 0 THEN loopBody_(pcA, s)
                     ELSE loopPasses_(pcA, s, depth - 1, 16) } } : TRUE

\* The do-while loop of computeVoiceLeading_, run to its end in blocks of
\* passes so that the evaluation depth stays small for k! permutations.
RECURSIVE voiceLeadingRun_(_, _)
voiceLeadingRun_(pcA, s) ==
  IF ~s.again THEN s.minSum
  ELSE CHOOSE r \in { voiceLeadingRun_(pcA, t) :
                        t \in {loopPasses_(pcA, s, 2, 16)} } : TRUE

voiceLeadingLoop_(pcA, pcB, minSum) ==
  voiceLeadingRun_(pcA, [pcB |-> pcB, minSum |-> minSum, again |-> TRUE])

\* Variant of voiceLeading_ that reports 0 when the sizes differ.
voiceLeading_SizeBlind(pcA, pcB) ==
  IF Len(pcA) # Len(pcB) \/ Len(pcA) = 0 THEN 0
  ELSE voiceLeadingLoop_(pcA, sortU8_(pcB), 127)

\* Variant of voiceLeading_ that does not sort pcB before permuting it.
voiceLeading_Unsorted(pcA, pcB) ==
  IF Len(pcA) # Len(pcB) \/ Len(pcA) = 0 THEN -1
  ELSE voiceLeadingLoop_(pcA, pcB, 127)

\* computeVoiceLeading_ on the two pitch-class arrays.
voiceLeading_(pcA, pcB) ==
  IF Len(pcA) # Len(pcB) \/ Len(pcA) = 0 THEN -1
  ELSE voiceLeadingLoop_(pcA, sortU8_(pcB), 127)

computeVoiceLeading_(a, b) == voiceLeading_(PitchClasses(a), PitchClasses(b))

\* NeoRiemannianTransform
NEO_NONE == 0
NEO_P == 1
NEO_L == 2
NEO_R == 3
NEO_RP == 4
NEO_RL == 5
NEO_LP == 6
NEO_LR == 7
NEO_PR == 8
NEO_PL == 9

\* Chord types "M" and "m", by their index in CHORD_FORMULAS.
TYPE_MAJOR == 0
TYPE_MINOR == 5

isTriad_(c) == chordSize(c) = 3 /\ c.type \in {TYPE_MAJOR, TYPE_MINOR}

\* Variant of applyNeoStep_ with the root moves of L and R exchanged.
applyNeoStep_SwappedLR(t, op) ==
  IF op = NEO_P THEN [t EXCEPT !.isMajor = ~@]
  ELSE IF op = NEO_R
  THEN (IF t.isMajor THEN [root |-> (t.root + 4) % 12, isMajor |-> FALSE]
        ELSE [root |-> (t.root + 8) % 12, isMajor |-> TRUE])
  ELSE IF op = NEO_L
  THEN (IF t.isMajor THEN [root |-> (t.root + 9) % 12, isMajor |-> FALSE]
        ELSE [root |-> (t.root + 3) % 12, isMajor |-> TRUE])
  ELSE t

\* One operation applied to the triad t = [root, isMajor].
applyNeoStep_(t, op) ==
  IF op = NEO_P THEN [t EXCEPT !.isMajor = ~@]
  ELSE IF op = NEO_L
  THEN (IF t.isMajor THEN [root |-> (t.root + 4) % 12, isMajor |-> FALSE]
        ELSE [root |-> (t.root + 8) % 12, isMajor |-> TRUE])
  ELSE IF op = NEO_R
  THEN (IF t.isMajor THEN [root |-> (t.root + 9) % 12, isMajor |-> FALSE]
        ELSE [root |-> (t.root + 3) % 12, isMajor |-> TRUE])
  ELSE t

\* SINGLE[] and TWO[] of detectNeoRiemannian_, in table order.
SINGLE == << NEO_P, NEO_L, NEO_R >>

TWO ==
  << << NEO_R, NEO_P, NEO_RP >>, << NEO_R, NEO_L, NEO_RL >>,
     << NEO_L, NEO_P, NEO_LP >>, << NEO_L, NEO_R, NEO_LR >>,
     << NEO_P, NEO_R, NEO_PR >>, << NEO_P, NEO_L, NEO_PL >> >>

detectNeoRiemannian_(a, b) ==
  LET ta == [root |-> a.root % 12, isMajor |-> a.type = TYPE_MAJOR]
      tb == [root |-> b.root % 12, isMajor |-> b.type = TYPE_MAJOR]
      singles == {si \in 1..3 : applyNeoStep_(ta, SINGLE[si]) = tb}
      twos == {ti \in 1..6 :
                 applyNeoStep_(applyNeoStep_(ta, TWO[ti][1]), TWO[ti][2]) = tb}
  IN IF ~isTriad_(a) \/ ~isTriad_(b) THEN NEO_NONE
     ELSE IF singles # {} THEN SINGLE[Least(singles)]
     ELSE IF twos # {} THEN TWO[Least(twos)][3]
     ELSE NEO_NONE

\* Variant of rootDirection_ that folds only the differences above 6.
rootDirection_FoldsUpOnly(ra, rb) ==
  LET diff == rb - ra
  IN IF diff > 6 THEN diff - 12 ELSE diff

\* Variant of rootDirection_ that folds -6 up to +6 as well.
rootDirection_HalfOpen(ra, rb) ==
  LET diff == rb - ra
      folded == IF diff > 6 THEN diff - 12 ELSE diff
  IN IF folded <= -6 THEN folded + 12 ELSE folded

\* diff, the signed root interval rb - ra folded into -6..6; every value
\* fits the int8_t it is stored in.
rootDirection_(ra, rb) ==
  LET diff == rb - ra
      folded == IF diff > 6 THEN diff - 12 ELSE diff
  IN IF folded < -6 THEN folded + 12 ELSE folded

\* The fields of the comparison of chords a and b.
compute(a, b) ==
  LET pcA == pcMaskFromChord_(a)
      pcB == pcMaskFromChord_(b)
      diff == rootDirection_(a.root % 12, b.root % 12)
  IN [common_pc |-> pcA \cap pcB,
      exclusive_a_pc |-> pcA \ pcB,
      exclusive_b_pc |-> pcB \ pcA,
      common_count |-> popcount12_(pcA \cap pcB),
      root_direction |-> diff,
      root_distance |-> IF diff < 0 THEN -diff ELSE diff,
      same_quality |-> a.type = b.type,
      same_size |-> chordSize(a) = chordSize(b),
      common_interval_mask |->
        intervalMaskFromChord_(a) \cap intervalMaskFromChord_(b),
      enharmonic |-> pcA = pcB,
      subset |-> subset_(pcA, pcB),
      inversion |-> pcA = pcB /\ (a.root % 12) # (b.root % 12),
      transposition |-> transposition_(pcA, pcB),
      voice_leading |-> computeVoiceLeading_(a, b),
      transformation |-> detectNeoRiemannian_(a, b),
      interval_vector_a |-> computeIntervalVector_(pcA),
      interval_vector_b |-> computeIntervalVector_(pcB),
      same_interval_vector |->
        computeIntervalVector_(pcA) = computeIntervalVector_(pcB)]

(***************************************************************************)
(* Actions                                                                 *)
(***************************************************************************)
SetMon(m) ==
  /\ held_' = m.held
  /\ sustained_' = m.sustained
  /\ sustainHeld_' = m.sustainHeld
  /\ chord_' = m.chord
  /\ chordValid_' = m.chordValid
  /\ field_' = m.field
  /\ fieldValid_' = m.fieldValid
  /\ chordCb_' = m.chordCb
  /\ fieldCb_' = m.fieldCb
  /\ noteCb_' = m.noteCb
  /\ chordFn_' = m.chordFn
  /\ fieldFn_' = m.fieldFn
  /\ noteFn_' = m.noteFn
  /\ trace' = m.trace

SetParser(ps) ==
  /\ status_' = ps.status
  /\ data1_' = ps.data1
  /\ count_' = ps.count
  /\ inSysex_' = ps.inSysex

Op(name, a, b, ret) == [op |-> name, a |-> a, b |-> b, ret |-> ret]

\* Every object as its constructor leaves it.
Constructed ==
  /\ held_ = << >>
  /\ sustained_ = [i \in 1..MAX_HELD |-> FALSE]
  /\ sustainHeld_ = FALSE
  /\ chord_ = DefaultChord
  /\ chordValid_ = FALSE
  /\ field_ = DefaultField
  /\ fieldValid_ = FALSE
  /\ chordCb_ = FALSE /\ fieldCb_ = FALSE /\ noteCb_ = FALSE
  /\ chordFn_ = FALSE /\ fieldFn_ = FALSE /\ noteFn_ = FALSE
  /\ trace = << >>
  /\ status_ = 0 /\ data1_ = 0 /\ count_ = 0 /\ inSysex_ = 0
  /\ fed = << >>
  /\ dispatched = << >>

Init == Constructed /\ lastOp = Op("new", 0, 0, FALSE)

\* --- Monitor intents, called directly ---
NoteOn(p, v) ==
  /\ SetMon(noteOn(Mon, p, v))
  /\ lastOp' = Op("noteOn", p, 0, FALSE)
  /\ UNCHANGED parserVars

NoteOff(p) ==
  /\ SetMon(noteOff(Mon, p))
  /\ lastOp' = Op("noteOff", p, 0, FALSE)
  /\ UNCHANGED parserVars

SustainOn ==
  /\ SetMon(sustainOn(Mon))
  /\ lastOp' = Op("sustainOn", 0, 0, FALSE)
  /\ UNCHANGED parserVars

SustainOff ==
  /\ SetMon(sustainOff(Mon))
  /\ lastOp' = Op("sustainOff", 0, 0, FALSE)
  /\ UNCHANGED parserVars

Reset ==
  /\ SetMon(reset(Mon))
  /\ lastOp' = Op("reset", 0, 0, FALSE)
  /\ UNCHANGED parserVars

Range(f) == {f[i] : i \in DOMAIN f}

\* The keys down, with p added, fit one hand position.
InHand(p) == \E h \in HandPositions : (Range(held_) \cup {p}) \subseteq h

Next ==
  \/ \E p \in Pitches, v \in Velocities : InHand(p) /\ NoteOn(p, v)
  \/ \E p \in Pitches : NoteOff(p)
  \/ SustainOn
  \/ SustainOff
  \/ Reset

Spec == Init /\ [][Next]_vars

\* --- Callback registration ---
Register(name, set) ==
  /\ lastOp' = Op(name, 0, 0, set)
  /\ trace' = << >>
  /\ UNCHANGED monState
  /\ UNCHANGED parserVars

OnChordDetected(cb) ==
  /\ chordCb_' = cb
  /\ UNCHANGED << fieldCb_, noteCb_, chordFn_, fieldFn_, noteFn_ >>
  /\ Register("onChordDetected", cb)

OnFieldChanged(cb) ==
  /\ fieldCb_' = cb
  /\ UNCHANGED << chordCb_, noteCb_, chordFn_, fieldFn_, noteFn_ >>
  /\ Register("onFieldChanged", cb)

OnNoteOn(cb) ==
  /\ noteCb_' = cb
  /\ UNCHANGED << chordCb_, fieldCb_, chordFn_, fieldFn_, noteFn_ >>
  /\ Register("onNoteOn", cb)

OnChordDetectedFn(fn) ==
  /\ chordFn_' = fn
  /\ UNCHANGED << chordCb_, fieldCb_, noteCb_, fieldFn_, noteFn_ >>
  /\ Register("onChordDetectedFn", fn)

OnFieldChangedFn(fn) ==
  /\ fieldFn_' = fn
  /\ UNCHANGED << chordCb_, fieldCb_, noteCb_, chordFn_, noteFn_ >>
  /\ Register("onFieldChangedFn", fn)

OnNoteOnFn(fn) ==
  /\ noteFn_' = fn
  /\ UNCHANGED << chordCb_, fieldCb_, noteCb_, chordFn_, fieldFn_ >>
  /\ Register("onNoteOnFn", fn)

NextReg ==
  \/ \E cb \in BOOLEAN : OnChordDetected(cb)
  \/ \E cb \in BOOLEAN : OnFieldChanged(cb)
  \/ \E cb \in BOOLEAN : OnNoteOn(cb)
  \/ \E fn \in BOOLEAN : OnChordDetectedFn(fn)
  \/ \E fn \in BOOLEAN : OnFieldChangedFn(fn)
  \/ \E fn \in BOOLEAN : OnNoteOnFn(fn)
  \/ \E p \in RegPitches : NoteOn(p, 100)
  \/ \E p \in RegPitches : NoteOff(p)
  \/ SustainOn
  \/ SustainOff
  \/ Reset

SpecReg == Init /\ [][NextReg]_vars

\* --- Capacity scenario: the keys of CapKeys are pressed in order, the last
\* key down is the one released, the pedal goes down with a full set ---
CapNoteOn ==
  \E p \in Range(CapKeys) :
    /\ p \in Range(held_) \/ p = CapKeys[heldCount_ + 1]
    /\ NoteOn(p, 100)

CapNoteOff == heldCount_ > 0 /\ NoteOff(held_[heldCount_])

CapSustainOn == heldCount_ = MAX_HELD /\ SustainOn

NextCap ==
  \/ CapNoteOn
  \/ CapNoteOff
  \/ CapSustainOn
  \/ SustainOff
  \/ Reset
  \/ \E cb \in BOOLEAN : OnNoteOn(cb)
  \/ \E fn \in BOOLEAN : OnNoteOnFn(fn)

SpecCap == Init /\ [][NextCap]_vars

\* --- Monitor intents with callbacks that call back into the Monitor ---
\* Keys pressed and released, by the caller and by the callbacks.
CallPitches == {60, 64, 67}

\* What the body of a callback does: it presses or releases the third of
\* the triad, lifts the pedal, or leaves the Monitor alone.
Bodies ==
  { << "noteOn", 64 >>, << "noteOff", 64 >>, << "sustainOff", 0 >>,
    << "none", 0 >> }

NoteOnCalling(p, onChord, onField) ==
  /\ SetMon(noteOnCalling(Mon, p, onChord, onField))
  /\ lastOp' = Op("noteOn", p, 0, FALSE)
  /\ UNCHANGED parserVars

NoteOffCalling(p, onChord, onField) ==
  /\ SetMon(noteOffCalling(Mon, p, onChord, onField))
  /\ lastOp' = Op("noteOff", p, 0, FALSE)
  /\ UNCHANGED parserVars

SustainOffCalling(onChord, onField) ==
  /\ SetMon(sustainOffCalling(Mon, onChord, onField))
  /\ lastOp' = Op("sustainOff", 0, 0, FALSE)
  /\ UNCHANGED parserVars

\* At most one of the two callbacks calls back into the Monitor.
NextCalling ==
  \/ \E cb \in BOOLEAN : OnChordDetected(cb)
  \/ \E cb \in BOOLEAN : OnFieldChanged(cb)
  \/ \E p \in CallPitches, c, f \in Bodies :
       "none" \in {c[1], f[1]} /\ NoteOnCalling(p, c, f)
  \/ \E p \in CallPitches, c, f \in Bodies :
       "none" \in {c[1], f[1]} /\ NoteOffCalling(p, c, f)
  \/ \E c, f \in Bodies :
       "none" \in {c[1], f[1]} /\ SustainOffCalling(c, f)
  \/ SustainOn

SpecCalling == Init /\ [][NextCalling]_vars

\* --- Byte-stream parser driving the Monitor ---
IsPrefix(s, t) == Len(s) <= Len(t) /\ SubSeq(t, 1, Len(s)) = s

\* Streams are explored freely up to MaxFree entries, and along the test
\* streams to their end.
MayFeed(x) ==
  \/ Len(fed) < MaxFree
  \/ \E t \in TestStreams : IsPrefix(Append(fed, x), t)

\* The state after a feed of b that returned r.
Fed(b, r) ==
  /\ SetParser(r.parser)
  /\ SetMon(r.mon)
  /\ dispatched' = dispatched \o r.sent
  /\ lastOp' = Op("feed", b, 0, r.handled)
  /\ fed' = Append(fed, b)

Feed(b) ==
  /\ MayFeed(b)
  /\ Fed(b, feed(Parser, b, Begin(Mon)))

ParserReset ==
  /\ MayFeed(RESET_MARK)
  /\ SetParser(parserReset(Parser))
  /\ fed' = Append(fed, RESET_MARK)
  /\ lastOp' = Op("parserReset", 0, 0, FALSE)
  /\ trace' = << >>
  /\ UNCHANGED << monState, monCbs, dispatched >>

StreamBytes == FeedBytes \cup UNION {Range(t) : t \in TestStreams}

NextParser ==
  \/ \E b \in StreamBytes : Feed(b)
  \/ ParserReset

SpecParser == Init /\ [][NextParser]_vars

\* --- Byte-stream parser fed with every kind of channel message ---
\* A status byte of each of the seven channel kinds, and data bytes that
\* serve as notes, velocities, and the controllers 64, 123 and others.
FramingBytes ==
  { NOTE_OFF, NOTE_ON, AFTERTOUCH, CONTROL_CHANGE, PROGRAM_CHANGE,
    CHANNEL_PRESSURE, PITCH_BEND, 0, 60, 64, 100, 123 }

NextFraming == \E b \in FramingBytes : Feed(b)

SpecFraming == Init /\ [][NextFraming]_vars

\* --- The two dispatchers, called directly ---
\* Notes sent through the dispatchers.
DispPitches == {60, 67}

\* (status, data1, data2) messages: note messages on two channels,
\* controllers 64, 123 and 1, one message of each other kind, and two
\* status bytes outside the channel-voice range.
ByteMessages ==
  ({NOTE_OFF, NOTE_OFF + 15, NOTE_ON, NOTE_ON + 15} \X DispPitches \X {0, 1, 100})
  \cup ({CONTROL_CHANGE, CONTROL_CHANGE + 15} \X {64, 123, 1} \X {0, 63, 64, 127})
  \cup ({AFTERTOUCH, PROGRAM_CHANGE, CHANNEL_PRESSURE, PITCH_BEND, SYSEX_START, 0}
          \X {60} \X {100})

\* Word 0 of a packet: [MT][group][opcode][channel][byte 1][byte 0].
Word0(mt, group, opcode, channel, b1, b0) ==
  << mt * 2^12 + group * 2^8 + opcode * 2^4 + channel, b1 * 2^8 + b0 >>

\* (group, channel) pairs.
Addressing == { << 0, 0 >>, << 15, 9 >> }

\* (opcode, byte 1, byte 0) of the MT = 0x2 packets; 188, 192, 128 and 191
\* have the bit above the 7-bit field set.
LegacyFields ==
  ({8, 9} \X {60, 67, 188} \X {0, 1, 100, 128})
  \cup ({11} \X {64, 123, 1, 192} \X {0, 63, 64, 191})
  \cup ({10, 12, 13, 14} \X {60} \X {100})

LegacyPackets ==
  { << Word0(2, a[1], f[1], a[2], f[2], f[3]) >> : a \in Addressing, f \in LegacyFields }

\* Word 1 of a note packet: 16-bit velocities 0, 0 (low half set), 1, 512,
\* 0x8000 and 0xFFFF in the high half.
VelocityWords ==
  { << 0, 0 >>, << 0, 65535 >>, << 1, 0 >>, << 512, 0 >>, << 32768, 0 >>,
    << 65535, 0 >> }

\* Word 1 of a controller packet: 0, 1, 0x7FFFFFFF, 0x80000000, 0xFFFFFFFF.
ValueWords ==
  { << 0, 0 >>, << 0, 1 >>, << 32767, 65535 >>, << 32768, 0 >>,
    << 65535, 65535 >> }

\* (opcode, index, word 1) of the MT = 0x4 packets.
NativeFields ==
  ({8, 9} \X {60, 67, 188} \X VelocityWords)
  \cup ({11} \X {64, 123, 1} \X ValueWords)
  \cup ({10, 12, 13, 14} \X {60} \X {HIGH_BIT})

NativePackets ==
  { << Word0(4, a[1], f[1], a[2], f[2], 0), f[3] >> : a \in Addressing, f \in NativeFields }

\* Packets of the other message types.
OtherPackets ==
  { << Word0(mt, 0, 9, 0, 60, 100), HIGH_BIT >> : mt \in {0, 1, 3, 5, 13, 15} }

UMPPackets == LegacyPackets \cup NativePackets \cup OtherPackets

\* The state after a dispatcher call on msg that returned d.
Called(name, msg, d) ==
  /\ SetMon(d.mon)
  /\ lastOp' = Op(name, msg, d.intent, d.handled)
  /\ UNCHANGED parserVars

Dispatch(msg) ==
  Called("dispatch", msg, dispatch(msg[1], msg[2], msg[3], Begin(Mon)))

DispatchUMP(words) ==
  Called("dispatchUMP", words, GingoMIDI2_dispatch(words, Begin(Mon)))

NextDispatch ==
  \/ \E msg \in ByteMessages : Dispatch(msg)
  \/ \E words \in UMPPackets : DispatchUMP(words)

\* Before the first call no message has been passed and no intent issued.
InitDispatch == Constructed /\ lastOp = Op("new", << >>, << >>, FALSE)

SpecDispatch == InitDispatch /\ [][NextDispatch]_vars

\* --- The comparator, called directly ---
\* Chord types compared: M, 7M, 6, M9, m, m7, dim, aug and 5.
ChordTypes == {0, 1, 2, 4, 5, 6, 13, 16, 25}

\* Chords on every root.
Chords == [root : 0..11, type : ChordTypes]

\* The two chords handed to compute.
InitCompare ==
  /\ Constructed
  /\ \E a \in Chords, b \in Chords : lastOp = Op("chords", a, b, FALSE)

Compute ==
  /\ lastOp.op = "chords"
  /\ lastOp' = Op("compute", lastOp.a, lastOp.b, compute(lastOp.a, lastOp.b))
  /\ UNCHANGED << monState, monCbs, trace, parserVars >>

NextCompare == Compute

SpecCompare == InitCompare /\ [][NextCompare]_vars

\* The transposition search of compute on a pitch-class mask and its
\* rotation: every 12-bit mask, every rotation.
Masks == SUBSET (0..11)

InitTranspose ==
  /\ Constructed
  /\ \E M \in Masks, n \in 0..11 : lastOp = Op("mask", M, n, FALSE)

Transpose ==
  /\ lastOp.op = "mask"
  /\ lastOp' = Op("transposition", lastOp.a, lastOp.b,
                  transposition_(lastOp.a, rotatePc_(lastOp.a, lastOp.b)))
  /\ UNCHANGED << monState, monCbs, trace, parserVars >>

NextTranspose == Transpose

SpecTranspose == InitTranspose /\ [][NextTranspose]_vars

\* computeVoiceLeading_ on two arrays of pitch classes: every array of up to
\* MaxVoices of the pitch classes PcValues (repeats included), and the
\* voicings of five to seven notes in LongVoicings.
MaxVoices == 4

PcValues == {0, 5, 11}

ShortVoicings ==
  UNION { [1..k -> PcValues] : k \in 1..MaxVoices }

LongVoicings ==
  { PitchClasses(c) : c \in [root : {0, 1, 6}, type : {11, 12, 19}] }
    \cup { << 0, 0, 4, 7, 7, 11, 11 >>, << 11, 6, 4, 0, 0, 7, 11 >>,
           << 9, 2, 2, 5, 9, 0 >>, << 3, 3, 8, 10, 3, 1 >> }

InitVoices ==
  /\ Constructed
  /\ \/ \E a \in ShortVoicings, b \in ShortVoicings :
          lastOp = Op("voices", a, b, FALSE)
     \/ \E a \in LongVoicings, b \in LongVoicings :
          lastOp = Op("voices", a, b, FALSE)

VoiceLeading ==
  /\ lastOp.op = "voices"
  /\ lastOp' = Op("voice_leading", lastOp.a, lastOp.b,
                  voiceLeading_(lastOp.a, lastOp.b))
  /\ UNCHANGED << monState, monCbs, trace, parserVars >>

NextVoices == VoiceLeading

SpecVoices == InitVoices /\ [][NextVoices]_vars

(***************************************************************************)
(* GingoMIDI2 Flex Data encoders                                           *)
(***************************************************************************)
\* GingoUMP(): no valid word, every word 0.
GingoUMP == [wordCount |-> 0, words |-> [i \in 1..4 |-> << 0, 0 >>]]

\* Variant of makeWord0_ that clamps group and channel to 15.
makeWord0_Clamped(statusBank, status, group, channel) ==
  << 13 * 4096 + (IF group > 15 THEN 15 ELSE group) * 256 + 0 * 64 + 1 * 16
       + (IF channel > 15 THEN 15 ELSE channel),
     statusBank * 256 + status >>

\* Flex Data word 0: MT 0xD << 28, (group & 0xF) << 24, format 0 << 22,
\* addressing 1 << 20, (channel & 0xF) << 16, statusBank << 8, status.  The
\* fields do not overlap, so the bitwise or is their sum.
makeWord0_(statusBank, status, group, channel) ==
  << 13 * 4096 + (group % 16) * 256 + 0 * 64 + 1 * 16 + (channel % 16),
     statusBank * 256 + status >>

\* name[i] of a note name held as the sequence of its characters; past the
\* end is the terminating NUL, written "".
CharAt(name, i) == IF i <= Len(name) THEN name[i] ELSE ""

\* Result: [letter, acc].
noteToMIDI2Tonic_(name) ==
  [letter |-> IF CharAt(name, 1) = "A" THEN 1
              ELSE IF CharAt(name, 1) = "B" THEN 2
              ELSE IF CharAt(name, 1) = "C" THEN 3
              ELSE IF CharAt(name, 1) = "D" THEN 4
              ELSE IF CharAt(name, 1) = "E" THEN 5
              ELSE IF CharAt(name, 1) = "F" THEN 6
              ELSE IF CharAt(name, 1) = "G" THEN 7
              ELSE 0,
   acc |-> IF CharAt(name, 2) = "#" /\ CharAt(name, 3) = "#" THEN 2
           ELSE IF CharAt(name, 2) = "#" THEN 1
           ELSE IF CharAt(name, 2) = "b" /\ CharAt(name, 3) = "b" THEN 14
           ELSE IF CharAt(name, 2) = "b" THEN 15
           ELSE 0]

\* TABLE[] of chordTypeForName_: << name, midi2Type >>, in table order.
TABLE ==
  << << "M", 1 >>, << "6", 2 >>, << "7M", 3 >>, << "M9", 4 >>,
     << "maj13", 6 >>, << "m", 7 >>, << "m6", 8 >>, << "m7", 9 >>,
     << "m9", 10 >>, << "m11", 11 >>, << "m13", 12 >>, << "7", 13 >>,
     << "9", 14 >>, << "11", 15 >>, << "13", 16 >>, << "aug", 17 >>,
     << "7#5", 18 >>, << "7+5", 18 >>, << "M7#5", 18 >>, << "dim", 19 >>,
     << "dim7", 20 >>, << "m7(b5)", 21 >>, << "mM7", 22 >>, << "5", 24 >>,
     << "sus2", 25 >>, << "sus4", 26 >>, << "sus", 26 >>, << "sus7", 27 >> >>

\* The first table entry with the name; 1 for the empty name, 0 if none.
chordTypeForName_(type) ==
  LET hits == {i \in 1..Len(TABLE) : TABLE[i][1] = type}
  IN IF type = "" THEN 1
     ELSE IF hits = {} THEN 0
     ELSE TABLE[Least(hits)][2]

\* ScaleType, by the index of the type in SCALE_MASKS / SCALE_TYPE_NAMES.
SCALE_MAJOR == 0
SCALE_NATURAL_MINOR == 1
SCALE_HARMONIC_MINOR == 2
SCALE_MELODIC_MINOR == 3
SCALE_TYPE_COUNT == 10

scaleTypeToMIDI2Mode_(st) ==
  IF st = SCALE_MAJOR THEN 0
  ELSE IF st = SCALE_NATURAL_MINOR THEN 1
  ELSE IF st = SCALE_HARMONIC_MINOR THEN 2
  ELSE IF st = SCALE_MELODIC_MINOR THEN 3
  ELSE 0

\* The Flex Data packet of both encoders: word 0, word 1 =
\* acc << 28 | letter << 24 | code << 16, words 2 and 3 zero.
FlexData(word0, tonic, code) ==
  [wordCount |-> 4,
   words |-> << word0,
                << tonic.acc * 4096 + tonic.letter * 256 + code, 0 >>,
                << 0, 0 >>, << 0, 0 >> >>]

\* chord = [root, type]: the name of the root note and the type name.
chordName(chord, group, channel) ==
  FlexData(makeWord0_(0, 6, group, channel),
           noteToMIDI2Tonic_(chord.root), chordTypeForName_(chord.type))

\* scale = [tonic, parent]: the name of the tonic and the parent ScaleType.
keySignature(scale, group, channel) ==
  FlexData(makeWord0_(0, 5, group, channel),
           noteToMIDI2Tonic_(scale.tonic), scaleTypeToMIDI2Mode_(scale.parent))

\* Note names, as the characters of GingoNote::name().
NoteNames ==
  { << "C" >>, << "A" >>, << "F", "#" >>, << "B", "b" >>,
    << "G", "#", "#" >>, << "E", "b", "b" >> }

\* Chord type names: every name of CHORD_TYPE_MAP and the empty name.
TypeNames ==
  { "", "(9)", "(b13)", "(b9)", "+", "+M7", "11", "13", "13(#11)", "5", "6",
    "6(9)", "7", "7#5", "7(#11)", "7(9)", "7(b5)", "7(b9)", "7+5", "7+9",
    "7/9", "7M", "7M(#5)", "M", "M13", "M6", "M7#5", "M9", "add11", "add2",
    "add4", "add9", "aug", "dim", "dim7", "dom7", "m", "m11", "m13", "m6",
    "m7", "m7(11)", "m7(b5)", "m7M", "m9", "mM7", "maj", "maj13", "maj7",
    "maj9", "mi", "min", "min7", "sus", "sus2", "sus4", "sus7", "sus9" }

\* uint8_t group and channel arguments, in and out of 0..15.
Nibbles == {0, 3, 5, 15, 16, 37, 255}

InitEncode ==
  /\ Constructed
  /\ \/ \E r \in NoteNames, t \in TypeNames, g \in Nibbles, c \in Nibbles :
          lastOp = Op("chord", [root |-> r, type |-> t], << g, c >>, FALSE)
     \/ \E r \in NoteNames, t \in 0..(SCALE_TYPE_COUNT - 1),
           g \in Nibbles, c \in Nibbles :
          lastOp = Op("scale", [tonic |-> r, parent |-> t], << g, c >>, FALSE)

ChordName ==
  /\ lastOp.op = "chord"
  /\ lastOp' = Op("chordName", lastOp.a, lastOp.b,
                  chordName(lastOp.a, lastOp.b[1], lastOp.b[2]))
  /\ UNCHANGED << monState, monCbs, trace, parserVars >>

KeySignature ==
  /\ lastOp.op = "scale"
  /\ lastOp' = Op("keySignature", lastOp.a, lastOp.b,
                  keySignature(lastOp.a, lastOp.b[1], lastOp.b[2]))
  /\ UNCHANGED << monState, monCbs, trace, parserVars >>

NextEncode == ChordName \/ KeySignature

SpecEncode == InitEncode /\ [][NextEncode]_vars

(***************************************************************************)
(* Properties                                                              *)
(***************************************************************************)
\* Positions of the events of kind ev in a trace.
EventsOf(t, ev) == {i \in 1..Len(t) : t[i].ev = ev}

Fires(t, ev) == EventsOf(t, ev) # {}

\* Entries of held that are not marked in sust, in order.
RECURSIVE Unmarked(_, _, _)
Unmarked(held, sust, i) ==
  IF i > Len(held) THEN << >>
  ELSE (IF sust[i] THEN << >> ELSE << held[i] >>) \o Unmarked(held, sust, i + 1)

\* What a re-evaluation of the held notes must leave in chordValid_.
Evaluated(held, valid) == valid = (Len(held) >= 2 /\ identify(held).ok)

\* C1: while the sustain latch is set, noteOff(p) removes nothing, changes
\* neither the note count nor chord validity, fires no callback and only marks
\* p as sustained; sustainOff() clears the latch, removes exactly the marked
\* entries, keeps the others in order, and re-evaluates.  After noteOn
\* 60, 64, 67 and sustainOn, noteOff(67) leaves three notes, and sustainOff
\* then leaves two.
C1_NoteOffUnderSustain ==
  (sustainHeld_ /\ lastOp'.op = "noteOff") =>
     /\ held_' = held_
     /\ chordValid_' = chordValid_
     /\ sustainHeld_'
     /\ trace' = << >>
     /\ \A i \in 1..MAX_HELD :
          sustained_'[i] = (sustained_[i] \/ i = IndexOf(held_, lastOp'.a))

C1_SustainOff ==
  (lastOp'.op = "sustainOff") =>
     /\ ~sustainHeld_'
     /\ held_' = Unmarked(held_, sustained_, 1)
     /\ \A i \in 1..Len(held_') : ~sustained_'[i]
     /\ Evaluated(held_', chordValid_')

C1_Scenario ==
  /\ (held_ = << 60, 64, 67 >> /\ sustainHeld_ /\ lastOp'.op = "noteOff"
       /\ lastOp'.a = 67)
       => (Len(held_') = 3 /\ chordValid_' = chordValid_)
  /\ (held_ = << 60, 64, 67 >> /\ sustainHeld_ /\ sustained_[3]
       /\ ~sustained_[1] /\ ~sustained_[2] /\ lastOp'.op = "sustainOff")
       => Len(held_') = 2

C1_Sustain ==
  [][C1_NoteOffUnderSustain /\ C1_SustainOff /\ C1_Scenario]_vars

\* C1 witness: 67 was released under the pedal with 60, 64, 67 down: the
\* three notes and the chord are still there and 67 is marked.
C1_Witness ==
  /\ lastOp.op = "noteOff" /\ lastOp.a = 67
  /\ sustainHeld_
  /\ held_ = << 60, 64, 67 >>
  /\ sustained_[3]
  /\ chordValid_

\* C2: in any operation the chord-changed callback fires exactly when the
\* chord went from invalid to valid, or stayed valid under a different name;
\* it fires once and receives the newly cached chord.
C2_ChordFires ==
  [][ LET fired == EventsOf(trace', "chord")
      IN /\ (fired # {}) <=>
              \/ (~chordValid_ /\ chordValid_')
              \/ (chordValid_ /\ chordValid_' /\ chord_' # chord_)
         /\ Cardinality(fired) <= 1
         /\ \A i \in fired : trace'[i].arg = chord_' ]_vars

\* C2 witness: 64 was added to the valid chord C5 (60, 67), which renamed it
\* to CM and fired chord-changed with CM.
C2_Witness ==
  /\ lastOp.op = "noteOn" /\ lastOp.a = 64
  /\ held_ = << 60, 67, 64 >>
  /\ chordValid_ /\ chord_ = [root |-> 0, type |-> 0]
  /\ \E i \in EventsOf(trace, "chord") : trace[i].arg = chord_

\* C3: noteOn of a pitch that is already active leaves the active set, the
\* cached chord and field and their validity unchanged and fires neither
\* chord-changed nor field-changed.
C3_IdempotentNoteOn ==
  [][ (lastOp'.op = "noteOn" /\ lastOp'.a \in Range(held_)) =>
        /\ held_' = held_
        /\ chord_' = chord_ /\ chordValid_' = chordValid_
        /\ field_' = field_ /\ fieldValid_' = fieldValid_
        /\ ~Fires(trace', "chord")
        /\ ~Fires(trace', "field") ]_vars

\* C3 witness: a noteOn that called no oracle although two or more notes are
\* down, so its pitch was already active, with a chord and a field cached.
C3_Witness ==
  /\ lastOp.op = "noteOn" /\ lastOp.a \in Range(held_)
  /\ Len(held_) >= 2
  /\ ~Fires(trace, "identify")
  /\ chordValid_ /\ fieldValid_

\* C4: under a status byte of a two-data-byte kind, outside an escape, the
\* first data byte of a pair is buffered and the second dispatches exactly one
\* message with that status, which stays the running status.  The bytes
\* 0x90 60 100 64 100 67 100 dispatch the three Note-Ons (60,100), (64,100),
\* (67,100) in that order and nothing else.
TwoDataKinds == {NOTE_OFF, NOTE_ON, AFTERTOUCH, CONTROL_CHANGE, PITCH_BEND}

C4_Pair ==
  (lastOp'.op = "feed" /\ lastOp'.a < 128 /\ inSysex_ = 0
     /\ status_ # 0 /\ TypeOf(status_) \in TwoDataKinds) =>
       /\ status_' = status_
       /\ count_ = 0 => (dispatched' = dispatched /\ count_' = 1
                           /\ data1_' = lastOp'.a)
       /\ count_ = 1 => (dispatched' =
                           Append(dispatched, << status_, data1_, lastOp'.a >>)
                         /\ count_' = 0)

C4_Stream ==
  fed = RunningStatusStream =>
    /\ dispatched = << << NOTE_ON, 60, 100 >>, << NOTE_ON, 64, 100 >>,
                       << NOTE_ON, 67, 100 >> >>
    /\ held_ = << 60, 64, 67 >>

C4_RunningStatus == [][C4_Pair]_vars /\ []C4_Stream

\* C4 witness: the whole running-status stream was fed and its third Note-On
\* has just been dispatched.
C4_Witness ==
  /\ fed = RunningStatusStream
  /\ Len(dispatched) = 3
  /\ lastOp.op = "feed" /\ lastOp.ret

\* C5: a byte fed inside an escape, the escape-start and the escape-end
\* dispatch nothing and leave the Monitor alone; a channel message after the
\* escape-end is dispatched.  The bytes 0xF0 0x7E 0x01 0xF8 0xF7 0x90 60 100
\* dispatch exactly one Note-On (60,100).
C5_Absorb ==
  (lastOp'.op = "feed"
     /\ (inSysex_ # 0 \/ lastOp'.a \in {SYSEX_START, SYSEX_END})) =>
       /\ dispatched' = dispatched
       /\ ~lastOp'.ret
       /\ UNCHANGED monState

C5_Stream ==
  fed = SysexStream =>
    /\ dispatched = << << NOTE_ON, 60, 100 >> >>
    /\ held_ = << 60 >>

C5_Escape == [][C5_Absorb]_vars /\ []C5_Stream

\* C5 witness: the escape stream of the test was fed to its end and the
\* Note-On after the escape reached the Monitor.
C5_Witness ==
  /\ fed = SysexStream
  /\ dispatched = << << NOTE_ON, 60, 100 >> >>
  /\ inSysex_ = 0
  /\ held_ = << 60 >>

\* C6: reset() leaves no active note, no chord, no field, the sustain latch
\* off and no entry marked, fires no callback and keeps the registrations.
C6_Reset ==
  [][ (lastOp'.op = "reset") =>
        /\ heldCount_' = 0
        /\ ~chordValid_' /\ ~fieldValid_'
        /\ ~sustainHeld_'
        /\ \A i \in 1..MAX_HELD : ~sustained_'[i]
        /\ trace' = << >>
        /\ UNCHANGED monCbs ]_vars

\* C6 witness: reset() ran on a Monitor that had a chord cached and callbacks
\* of both styles registered.
C6_Witness ==
  /\ lastOp.op = "reset"
  /\ chord_ # DefaultChord
  /\ chordCb_ /\ fieldFn_ /\ noteCb_ /\ noteFn_
  /\ heldCount_ = 0

\* C7: never more than 16 notes are active; noteOn of a new pitch with 16
\* active leaves the active set unchanged and still fires the per-note
\* callback.
C7_Dropped ==
  (lastOp'.op = "noteOn" /\ Len(held_) = 16 /\ lastOp'.a \notin Range(held_)) =>
     /\ held_' = held_
     /\ Cardinality(EventsOf(trace', "note")) = 1

C7_Capacity == [](heldCount_ <= 16) /\ [][C7_Dropped]_vars

\* C7 witness: the seventeenth key was pressed with 16 notes active and is
\* not in the active set.
C7_Witness ==
  /\ lastOp.op = "noteOn" /\ lastOp.a = CapKeys[17]
  /\ heldCount_ = 16
  /\ CapKeys[17] \notin Range(held_)
  /\ Fires(trace, "note")

\* C8: every noteOn fires the per-note callback exactly once, invoking each
\* registered per-note callback once; noteOff, sustainOn, sustainOff and
\* reset never fire it.
C8_NoteCallback ==
  /\ lastOp.op = "noteOn" =>
       /\ Cardinality(EventsOf(trace, "note")) = 1
       /\ \A i \in EventsOf(trace, "note") :
            /\ trace[i].arg.note = lastOp.a
            /\ (noteCb_ <=> Cardinality({j \in DOMAIN trace[i].to :
                                           trace[i].to[j] = "cb"}) = 1)
            /\ (noteFn_ <=> Cardinality({j \in DOMAIN trace[i].to :
                                           trace[i].to[j] = "fn"}) = 1)
            /\ Len(trace[i].to) <= 2
  /\ lastOp.op \in {"noteOff", "sustainOn", "sustainOff", "reset"} =>
       ~Fires(trace, "note")

\* C8 witness: a noteOn dropped at capacity fired the per-note callback for
\* a registered function pointer.
C8_Witness ==
  /\ lastOp.op = "noteOn"
  /\ heldCount_ = 16 /\ lastOp.a \notin Range(held_)
  /\ noteCb_
  /\ \E i \in EventsOf(trace, "note") : trace[i].to = << "cb" >>

\* C9: a valid field implies a valid chord; an operation that leaves the chord
\* invalid has called no deduction and fired no field-changed.
C9_FieldNeedsChord ==
  /\ fieldValid_ => chordValid_
  /\ ~chordValid_ => (~Fires(trace, "deduce") /\ ~Fires(trace, "field"))

\* C9 witness: 67 was released from the chord 60, 64, 67; the chord became
\* invalid and the field that was cached for it was dropped.
C9_Witness ==
  /\ lastOp.op = "noteOff" /\ lastOp.a = 67
  /\ held_ = << 60, 64 >>
  /\ Fires(trace, "identify")
  /\ ~chordValid_ /\ ~fieldValid_
  /\ field_ # DefaultField

\* C10: in a re-evaluation with a valid chord, field-changed fires exactly
\* when the deduction returns a candidate and the field was invalid or the
\* candidate differs in tonic or scale type from the cached field; it then
\* carries the candidate.  When the deduction returns nothing while a field
\* was cached, the field becomes invalid and nothing fires.
C10_FieldFires ==
  [][ \A d \in EventsOf(trace', "deduce") :
        LET r == trace'[d].arg
            fired == EventsOf(trace', "field")
        IN /\ chordValid_'
           /\ (fired # {}) <=>
                (r.found # 0 /\ (~fieldValid_ \/ r.field.tonic # field_.tonic
                                   \/ r.field.type # field_.type))
           /\ Cardinality(fired) <= 1
           /\ \A i \in fired : trace'[i].arg = r.field /\ field_' = r.field
           /\ fieldValid_' = (r.found # 0)
           /\ (r.found = 0 /\ fieldValid_) => (~fieldValid_' /\ fired = {}) ]_vars

\* C10 witness: 63 was added to C5 (60, 67): the chord stayed valid and the
\* deduced field changed from the cached one, firing field-changed.
C10_Witness ==
  /\ lastOp.op = "noteOn" /\ lastOp.a = 63
  /\ held_ = << 60, 67, 63 >>
  /\ chordValid_ /\ fieldValid_
  /\ \E i \in EventsOf(trace, "field") : trace[i].arg = field_
  /\ field_ # deduce(<< 60, 67 >>).field

\* Rank of a callback event in the order chord, field, per-note.
CallbackRank(ev) == IF ev = "chord" THEN 1 ELSE IF ev = "field" THEN 2 ELSE 3

Callbacks(t) == EventsOf(t, "chord") \cup EventsOf(t, "field") \cup EventsOf(t, "note")

\* C11: within one noteOn the callbacks that fire do so in the order
\* chord-changed, field-changed, per-note; the per-note context is the
\* field's context of the note if the field is valid after the call, and
\* degree 0 / not in scale otherwise.
C11_CallbackOrder ==
  lastOp.op = "noteOn" =>
    /\ \A i, j \in Callbacks(trace) :
         i < j => CallbackRank(trace[i].ev) < CallbackRank(trace[j].ev)
    /\ \A i \in EventsOf(trace, "note") :
         trace[i].arg =
           IF fieldValid_ THEN noteContext(field_, lastOp.a)
           ELSE [note |-> lastOp.a, degree |-> 0, inScale |-> FALSE]

\* C11 witness: a noteOn fired all three callbacks, and the per-note context
\* comes from a field that this call installed.
C11_Witness ==
  /\ lastOp.op = "noteOn"
  /\ Fires(trace, "chord") /\ Fires(trace, "field") /\ Fires(trace, "note")
  /\ \E i \in EventsOf(trace, "note") : trace[i].arg.inScale

\* The dispatcher call of this step returned true after issuing exactly the
\* one Monitor intent call, which left the Monitor as m.
Did(call, m) ==
  /\ lastOp'.ret
  /\ lastOp'.b = << call >>
  /\ \A after \in {m} : SetMon(after)

\* The dispatcher call of this step returned false, issued no intent, left
\* the Monitor as it was and fired nothing.
DidNothing ==
  /\ ~lastOp'.ret
  /\ lastOp'.b = << >>
  /\ UNCHANGED << monState, monCbs >>
  /\ trace' = << >>

\* C12: byte-form dispatch classifies by the top nibble of status only:
\* 0x9n with data2 > 0 issues noteOn(data1, data2); 0x9n with data2 = 0 and
\* 0x8n issue noteOff(data1); 0xBn with data1 = 64 issues sustainOn when
\* data2 >= 64 and sustainOff otherwise; 0xBn with data1 = 123 issues reset;
\* each returns true and issues exactly one intent.
C12_ByteDispatch ==
  [][ lastOp'.op = "dispatch" =>
        LET nibble == lastOp'.a[1] \div 16
            data1 == lastOp'.a[2]
            data2 == lastOp'.a[3]
        IN /\ (nibble = 9 /\ data2 > 0) =>
                Did(<< "noteOn", data1, data2 >>, noteOn(Mon, data1, data2))
           /\ ((nibble = 9 /\ data2 = 0) \/ nibble = 8) =>
                Did(<< "noteOff", data1, 0 >>, noteOff(Mon, data1))
           /\ (nibble = 11 /\ data1 = 64 /\ data2 >= 64) =>
                Did(<< "sustainOn", 0, 0 >>, sustainOn(Mon))
           /\ (nibble = 11 /\ data1 = 64 /\ data2 < 64) =>
                Did(<< "sustainOff", 0, 0 >>, sustainOff(Mon))
           /\ (nibble = 11 /\ data1 = 123) =>
                Did(<< "reset", 0, 0 >>, reset(Mon)) ]_vars

\* C12 witness: a Note-On on channel 15 added 67 to the held 60 and the
\* chord became valid.
C12_Witness ==
  /\ lastOp.op = "dispatch" /\ lastOp.a = << NOTE_ON + 15, 67, 100 >>
  /\ lastOp.ret /\ lastOp.b = << << "noteOn", 67, 100 >> >>
  /\ held_ = << 60, 67 >> /\ chordValid_

\* Fields of word 0 of a packet.
TagOf(words) == words[1][1] \div 4096

OpcodeOf(words) == (words[1][1] \div 16) % 16

IndexOf7(words) == (words[1][2] \div 256) % 128

\* C13: a message that a dispatcher does not classify is unhandled: byte-form
\* dispatch of any kind other than note on, note off and controllers 64 and
\* 123, and packet-form dispatch of a tag other than 0x2 and 0x4 or of an
\* unclassified opcode within those tags, returns false, issues no intent,
\* leaves the Monitor unchanged and fires no callback.
C13_Unhandled ==
  [][ /\ (/\ lastOp'.op = "dispatch"
           /\ lastOp'.a[1] \div 16 \notin {8, 9}
           /\ ~(lastOp'.a[1] \div 16 = 11 /\ lastOp'.a[2] \in {64, 123}))
         => DidNothing
      /\ (/\ lastOp'.op = "dispatchUMP"
           /\ \/ TagOf(lastOp'.a) \notin {2, 4}
              \/ /\ OpcodeOf(lastOp'.a) \notin {8, 9}
                 /\ ~(OpcodeOf(lastOp'.a) = 11 /\ IndexOf7(lastOp'.a) \in {64, 123}))
         => DidNothing ]_vars

\* C13 witness: controller 1 was dispatched in byte form while the chord
\* 60, 67 was held, and was not handled.
C13_Witness ==
  /\ lastOp.op = "dispatch" /\ lastOp.a = << CONTROL_CHANGE, 1, 127 >>
  /\ ~lastOp.ret
  /\ held_ = << 60, 67 >> /\ chordValid_ /\ ~sustainHeld_

\* Channel nibbles given to the byte-form status.
StatusChannels == {0, 9, 15}

\* C14: packet-form dispatch of a tag-0x2 word returns the same value,
\* issues the same intent and has the same effect on the Monitor as
\* byte-form dispatch of (opcode * 16 + channel, data1, data2) for every
\* channel, where opcode is bits 23..20, data1 bits 14..8 and data2 bits
\* 6..0 of the word; group and channel bits do not matter.
C14_LegacyEquivalence ==
  [][ (lastOp'.op = "dispatchUMP" /\ TagOf(lastOp'.a) = 2) =>
        \A channel \in StatusChannels :
          \A d \in {dispatch(OpcodeOf(lastOp'.a) * 16 + channel,
                             IndexOf7(lastOp'.a), lastOp'.a[1][2] % 128,
                             Begin(Mon))} :
            /\ lastOp'.ret = d.handled
            /\ lastOp'.b = d.intent
            /\ SetMon(d.mon) ]_vars

\* C14 witness: a Note-On packet for group 15, channel 9 whose low byte is
\* 128 (data2 = 0 in bits 6..0) released 67 from the held 60, 67.
C14_Witness ==
  /\ lastOp.op = "dispatchUMP"
  /\ lastOp.a = << Word0(2, 15, 9, 9, 67, 128) >>
  /\ lastOp.ret /\ lastOp.b = << << "noteOff", 67, 0 >> >>
  /\ held_ = << 60 >> /\ ~chordValid_
  /\ chord_ # DefaultChord

\* C15: packet-form dispatch of a tag-0x4 note message, with index = bits
\* 14..8 of word 0 and vel16 = the top 16 bits of word 1: Note-On with
\* vel16 # 0 issues noteOn(index, vel16 >> 9); Note-On with vel16 = 0 and
\* Note-Off with any velocity issue noteOff(index); all return true.
C15_NativeNote ==
  [][ (lastOp'.op = "dispatchUMP" /\ TagOf(lastOp'.a) = 4
         /\ OpcodeOf(lastOp'.a) \in {8, 9}) =>
        LET index == IndexOf7(lastOp'.a)
            vel16 == lastOp'.a[2][1]
        IN IF OpcodeOf(lastOp'.a) = 9 /\ vel16 # 0
           THEN Did(<< "noteOn", index, vel16 \div 512 >>,
                    noteOn(Mon, index, vel16 \div 512))
           ELSE Did(<< "noteOff", index, 0 >>, noteOff(Mon, index)) ]_vars

\* C15 witness: a native Note-On with vel16 = 1 issued noteOn(67, 0) and
\* completed the chord 60, 67.
C15_Witness ==
  /\ lastOp.op = "dispatchUMP"
  /\ lastOp.a = << Word0(4, 0, 9, 0, 67, 0), << 1, 0 >> >>
  /\ lastOp.b = << << "noteOn", 67, 0 >> >>
  /\ held_ = << 60, 67 >> /\ Fires(trace, "chord")

\* C16: packet-form dispatch of a tag-0x4 controller message with index 64
\* issues sustainOn when bit 31 of word 1 is set and sustainOff when it is
\* clear, whatever the other 31 bits, and returns true.
C16_NativeSustain ==
  [][ (lastOp'.op = "dispatchUMP" /\ TagOf(lastOp'.a) = 4
         /\ OpcodeOf(lastOp'.a) = 11 /\ IndexOf7(lastOp'.a) = 64) =>
        IF lastOp'.a[2][1] \div 32768 = 1
        THEN Did(<< "sustainOn", 0, 0 >>, sustainOn(Mon))
        ELSE Did(<< "sustainOff", 0, 0 >>, sustainOff(Mon)) ]_vars

\* C16 witness: controller 64 with value 0x7FFFFFFF released the pedal and
\* the sustained 67 was dropped from 60, 67.
C16_Witness ==
  /\ lastOp.op = "dispatchUMP"
  /\ TagOf(lastOp.a) = 4 /\ OpcodeOf(lastOp.a) = 11 /\ IndexOf7(lastOp.a) = 64
  /\ lastOp.a[2] = << 32767, 65535 >>
  /\ lastOp.b = << << "sustainOff", 0, 0 >> >>
  /\ held_ = << 60 >> /\ ~sustainHeld_
  /\ ~chordValid_ /\ chord_ # DefaultChord

\* A tag-0x4 controller-123 packet is dispatched in this step.
NativeAllNotesOff ==
  /\ lastOp'.op = "dispatchUMP" /\ TagOf(lastOp'.a) = 4
  /\ OpcodeOf(lastOp'.a) = 11 /\ IndexOf7(lastOp'.a) = 123

\* C17 as stated: the dispatch of a tag-0x4 controller-123 packet whose
\* value has bit 31 clear does not issue the reset of the Monitor.
C17_Original ==
  ( /\ lastOp.op = "dispatchUMP" /\ TagOf(lastOp.a) = 4
    /\ OpcodeOf(lastOp.a) = 11 /\ IndexOf7(lastOp.a) = 123
    /\ lastOp.a[2][1] \div 32768 = 0 ) =>
      lastOp.b # << << "reset", 0, 0 >> >>

\* C17, amended: packet-form dispatch of a tag-0x4 controller message with
\* index 123 issues reset and returns true for every value of word 1; bit 31
\* of the value is not tested.
C17_NativeReset ==
  [][ NativeAllNotesOff => Did(<< "reset", 0, 0 >>, reset(Mon)) ]_vars

\* C17 witness: controller 123 with value 0 cleared the Monitor while the
\* chord it had cached is still stored.
C17_Witness ==
  /\ lastOp.op = "dispatchUMP"
  /\ TagOf(lastOp.a) = 4 /\ OpcodeOf(lastOp.a) = 11 /\ IndexOf7(lastOp.a) = 123
  /\ lastOp.a[2] = << 0, 0 >>
  /\ lastOp.ret /\ held_ = << >> /\ ~chordValid_
  /\ chord_ # DefaultChord

\* The messages a freshly constructed parser dispatches for the stream s
\* (bytes and reset() marks) from position i on, given its state ps there.
RECURSIVE Replay(_, _, _)
Replay(s, i, ps) ==
  IF i > Len(s) THEN << >>
  ELSE IF s[i] = RESET_MARK THEN Replay(s, i + 1, parserReset(ps))
  ELSE LET r == feed(ps, s[i], Begin(Mon))
       IN r.sent \o Replay(s, i + 1, r.parser)

IsRealTime(b) == b >= REAL_TIME /\ b < RESET_MARK

WithoutRealTime(s) == SelectSeq(s, LAMBDA b : ~IsRealTime(b))

\* C18, per byte: feeding a real-time byte changes none of running status,
\* buffered data byte, pending count and SysEx flag, dispatches nothing,
\* leaves the Monitor alone and returns false.
C18_Byte ==
  (lastOp'.op = "feed" /\ IsRealTime(lastOp'.a)) =>
    /\ UNCHANGED << status_, data1_, count_, inSysex_, dispatched >>
    /\ UNCHANGED << monState, monCbs >>
    /\ trace' = << >>
    /\ ~lastOp'.ret

\* C18, per stream: the messages dispatched for the bytes fed so far are
\* those a parser dispatches for the same stream without its real-time
\* bytes.
C18_Stream ==
  dispatched = Replay(WithoutRealTime(fed), 1, parserReset(Parser))

\* C18: real-time bytes (0xF8..0xFF) are transparent to the parser, byte by
\* byte and for the dispatched messages of every stream.
C18_RealTime == [][C18_Byte]_vars /\ []C18_Stream

\* C18 witness: a real-time byte arrived between the two data bytes of a
\* Note-On, and the Note-On was dispatched all the same.
C18_Witness ==
  /\ fed = << NOTE_ON, 60, REAL_TIME, 100 >>
  /\ dispatched = << << NOTE_ON, 60, 100 >> >>
  /\ lastOp.ret /\ held_ = << 60 >>

\* C19, discard: a data byte fed while there is no running status and no
\* SysEx is open dispatches nothing, changes no parser state, leaves the
\* Monitor alone and returns false.
C19_Discard ==
  (lastOp'.op = "feed" /\ lastOp'.a < 128 /\ status_ = 0) =>
    /\ UNCHANGED << status_, data1_, count_, inSysex_, dispatched >>
    /\ UNCHANGED << monState, monCbs >>
    /\ ~lastOp'.ret

\* C19, loss of synchronization: reset() and a system-common byte outside a
\* SysEx clear running status and pending count and dispatch nothing.
C19_Desync ==
  (\/ lastOp'.op = "parserReset"
   \/ (lastOp'.op = "feed" /\ inSysex_ = 0
         /\ lastOp'.a >= SYSTEM_COMMON /\ lastOp'.a < SYSEX_END)) =>
    /\ status_' = 0 /\ count_' = 0
    /\ dispatched' = dispatched

\* C19, resumption: running status is regained only by feeding a status
\* byte, and a message is dispatched only with a running status.
C19_Resume ==
  /\ (status_ = 0 /\ status_' # 0) =>
       (lastOp'.op = "feed" /\ lastOp'.a >= 128 /\ lastOp'.a < SYSEX_START
          /\ status_' = lastOp'.a /\ dispatched' = dispatched)
  /\ dispatched' # dispatched => status_ # 0

\* C19: unsynchronized data is discarded by the parser; a freshly
\* constructed parser has no running status.
C19_Unsynchronized ==
  /\ (fed = << >> => status_ = 0)
  /\ [][C19_Discard /\ C19_Desync /\ C19_Resume]_vars

\* C19 witness: a system-common byte arrived after the first data byte of a
\* Note-On; the second data byte was then discarded.
C19_Witness ==
  /\ fed = << NOTE_ON, 60, SYSTEM_COMMON, 100 >>
  /\ lastOp.op = "feed" /\ lastOp.a = 100 /\ ~lastOp.ret
  /\ status_ = 0 /\ count_ = 0 /\ dispatched = << >>

\* Shortest arc between two pitch classes on the chromatic circle.
ShortestArc(x, y) ==
  LET up == (y - x) % 12
  IN IF up <= 12 - up THEN up ELSE 12 - up

\* C20: the comparator's root distance is symmetric,
\* compute(A, B).root_distance = compute(B, A).root_distance, and it is the
\* shortest-arc distance (0..6) between the two root pitch classes.
C20_RootDistance ==
  lastOp.op = "compute" =>
    /\ lastOp.ret.root_distance = compute(lastOp.b, lastOp.a).root_distance
    /\ lastOp.ret.root_distance = ShortestArc(lastOp.a.root, lastOp.b.root)
    /\ lastOp.ret.root_distance \in 0..6

\* C20 witness: B (11) against C (0): the raw difference -11 is folded to a
\* distance of 1.
C20_Witness ==
  /\ lastOp.op = "compute"
  /\ lastOp.a.root = 11 /\ lastOp.b.root = 0
  /\ lastOp.ret.root_distance = 1 /\ lastOp.ret.root_direction = 1

\* C21 as stated: root direction is congruent to rb - ra modulo 12 and lies
\* in the half-open range (-6, +6]: it is never -6.
C21_Original ==
  lastOp.op = "compute" =>
    /\ (lastOp.ret.root_direction - (lastOp.b.root - lastOp.a.root)) % 12 = 0
    /\ lastOp.ret.root_direction \in -5..6

\* C21, amended: root direction is the signed difference rb - ra of the root
\* pitch classes normalized to the closed range [-6, +6]: it is congruent to
\* rb - ra modulo 12, and roots a tritone apart yield +6 when B's root is
\* the larger pitch class and -6 when it is the smaller.
C21_RootDirection ==
  lastOp.op = "compute" =>
    LET ra == lastOp.a.root
        rb == lastOp.b.root
        dir == lastOp.ret.root_direction
    IN /\ (dir - (rb - ra)) % 12 = 0
       /\ dir \in -6..6
       /\ rb - ra = 6 => dir = 6
       /\ rb - ra = -6 => dir = -6

\* C21 witness: F# (6) against C (0): B's root is a tritone below and the
\* direction is -6.
C21_Witness ==
  /\ lastOp.op = "compute"
  /\ lastOp.a.root = 6 /\ lastOp.b.root = 0
  /\ lastOp.ret.root_direction = -6 /\ lastOp.ret.root_distance = 6

\* C22: for every chord X, compute(X, X) yields common_count equal to X's
\* number of notes, both exclusive masks empty, root_distance 0 and
\* root_direction 0, enharmonic true, subset = EQUAL, inversion false,
\* transposition 0, voice_leading 0 and transformation none.
C22_SelfComparison ==
  (lastOp.op = "compute" /\ lastOp.a = lastOp.b) =>
    /\ lastOp.ret.common_count = chordSize(lastOp.a)
    /\ lastOp.ret.exclusive_a_pc = {} /\ lastOp.ret.exclusive_b_pc = {}
    /\ lastOp.ret.root_distance = 0 /\ lastOp.ret.root_direction = 0
    /\ lastOp.ret.enharmonic
    /\ lastOp.ret.subset = 3
    /\ ~lastOp.ret.inversion
    /\ lastOp.ret.transposition = 0
    /\ lastOp.ret.voice_leading = 0
    /\ lastOp.ret.transformation = 0

\* C22 witness: BM9 (five notes, wrapping past the octave) compared with
\* itself.
C22_Witness ==
  /\ lastOp.op = "compute"
  /\ lastOp.a = [root |-> 11, type |-> 4] /\ lastOp.b = lastOp.a
  /\ lastOp.ret.common_count = 5 /\ lastOp.ret.common_pc = {11, 3, 6, 10, 1}
  /\ lastOp.ret.voice_leading = 0

\* C23: each of the 12 major triads {r, r+4, r+7} and the 12 minor triads
\* {r, r+3, r+7} (mod 12) has the interval-class vector {0,0,1,1,1,0}
\* computed from its pitch-class mask, so same_interval_vector is true for
\* every pair of major/minor triads.
C23_TriadVector ==
  lastOp.op = "compute" =>
    /\ \A r \in 0..11 :
         /\ computeIntervalVector_({r, (r + 4) % 12, (r + 7) % 12})
              = << 0, 0, 1, 1, 1, 0 >>
         /\ computeIntervalVector_({r, (r + 3) % 12, (r + 7) % 12})
              = << 0, 0, 1, 1, 1, 0 >>
    /\ isTriad_(lastOp.a) =>
         /\ pcMaskFromChord_(lastOp.a) =
              { lastOp.a.root,
                (lastOp.a.root + (IF lastOp.a.type = TYPE_MAJOR THEN 4 ELSE 3)) % 12,
                (lastOp.a.root + 7) % 12 }
         /\ lastOp.ret.interval_vector_a = << 0, 0, 1, 1, 1, 0 >>
    /\ isTriad_(lastOp.b) =>
         lastOp.ret.interval_vector_b = << 0, 0, 1, 1, 1, 0 >>
    /\ (isTriad_(lastOp.a) /\ isTriad_(lastOp.b)) =>
         lastOp.ret.same_interval_vector

\* C23 witness: G major against B minor, both masks wrapping past bit 11.
C23_Witness ==
  /\ lastOp.op = "compute"
  /\ lastOp.a = [root |-> 7, type |-> TYPE_MAJOR]
  /\ lastOp.b = [root |-> 11, type |-> TYPE_MINOR]
  /\ lastOp.ret.common_pc = {2, 11}
  /\ lastOp.ret.interval_vector_a = << 0, 0, 1, 1, 1, 0 >>
  /\ lastOp.ret.same_interval_vector

\* The rotations 1..n that map the mask M to itself.
Symmetries(M, n) == {k \in 1..n : rotatePc_(M, k) = M}

\* C24 as stated: for all 12-bit masks M and all n in 0..11, the
\* transposition index computed between M and rotate(M, n) equals n.
C24_Original ==
  lastOp.op = "transposition" => lastOp.ret = lastOp.b

\* C24: for all 12-bit masks M and all n in 0..11, the transposition index
\* computed between M and rotate(M, n) is the first m in 0..n that rotates M
\* onto rotate(M, n); it equals n exactly when no rotation by 1..n semitones
\* maps M to itself.
C24_Transposition ==
  lastOp.op = "transposition" =>
    /\ lastOp.ret \in 0..lastOp.b
    /\ rotatePc_(lastOp.a, lastOp.ret) = rotatePc_(lastOp.a, lastOp.b)
    /\ \A m \in 0..(lastOp.ret - 1) :
         rotatePc_(lastOp.a, m) # rotatePc_(lastOp.a, lastOp.b)
    /\ (lastOp.ret = lastOp.b) <=> (Symmetries(lastOp.a, lastOp.b) = {})

\* C24 witness: the augmented mask {0, 4, 8} rotated by 4 is itself, and the
\* search answers 0.
C24_Witness ==
  /\ lastOp.op = "transposition"
  /\ lastOp.a = {0, 4, 8} /\ lastOp.b = 4 /\ lastOp.ret = 0

\* Number of occurrences of the pitch class p in the array pcs.
PcCount(pcs, p) == Cardinality({i \in DOMAIN pcs : pcs[i] = p})

SameMultiset(pcA, pcB) == \A p \in 0..11 : PcCount(pcA, p) = PcCount(pcB, p)

\* C25: when the two chords have different note counts voice_leading is the
\* sentinel -1; when the counts are equal voice_leading >= 0, and it is 0
\* if and only if the two chords' pitch-class multisets are equal.
C25_VoiceLeadingSentinel ==
  lastOp.op = "compute" =>
    /\ chordSize(lastOp.a) # chordSize(lastOp.b) => lastOp.ret.voice_leading = -1
    /\ chordSize(lastOp.a) = chordSize(lastOp.b) =>
         /\ lastOp.ret.voice_leading >= 0
         /\ (lastOp.ret.voice_leading = 0) <=>
              SameMultiset(PitchClasses(lastOp.a), PitchClasses(lastOp.b))

\* C25 witness: C6 and Am7 are different chords with the same four pitch
\* classes in a different order, and their voice leading is 0.
C25_Witness ==
  /\ lastOp.op = "compute"
  /\ lastOp.a = [root |-> 0, type |-> 2] /\ lastOp.b = [root |-> 9, type |-> 6]
  /\ PitchClasses(lastOp.a) = << 0, 4, 7, 9 >>
  /\ PitchClasses(lastOp.b) = << 9, 0, 4, 7 >>
  /\ lastOp.ret.voice_leading = 0

\* The least sum of shortest arcs over the pairings of pcA[i..] with the
\* entries of pcB at the positions in free.
RECURSIVE MinPairing(_, _, _, _)
MinPairing(pcA, pcB, i, free) ==
  IF i > Len(pcA) THEN 0
  ELSE Least({ ShortestArc(pcA[i], pcB[j])
                 + MinPairing(pcA, pcB, i + 1, free \ {j}) : j \in free })

\* C26: for two chords of equal size k (1 <= k <= 7), voice_leading is the
\* minimum, over all k! bijections between A's notes and B's notes, of the
\* sum of shortest-arc distances of the paired pitch classes, also when
\* pitch classes repeat.
C26_VoiceLeadingExact ==
  (lastOp.op = "voice_leading" /\ Len(lastOp.a) = Len(lastOp.b)) =>
    lastOp.ret = MinPairing(lastOp.a, lastOp.b, 1, 1..Len(lastOp.b))

\* C26 witness: two voicings of seven notes with repeated pitch classes,
\* given in different orders, whose best pairing costs 1.
C26_Witness ==
  /\ lastOp.op = "voice_leading"
  /\ lastOp.a = << 0, 0, 4, 7, 7, 11, 11 >>
  /\ lastOp.b = << 11, 6, 4, 0, 0, 7, 11 >>
  /\ lastOp.ret = 1

\* The tag of the path from a triad to the triad d semitones above it: the
\* single steps P, L, R and the two-step paths XY (X first, then Y).
NeoTable(fromMajor, toMajor, d) ==
  IF fromMajor /\ ~toMajor THEN
    (IF d = 0 THEN NEO_P ELSE IF d = 4 THEN NEO_L ELSE IF d = 9 THEN NEO_R
     ELSE NEO_NONE)
  ELSE IF ~fromMajor /\ toMajor THEN
    (IF d = 0 THEN NEO_P ELSE IF d = 8 THEN NEO_L ELSE IF d = 3 THEN NEO_R
     ELSE NEO_NONE)
  ELSE IF fromMajor /\ toMajor THEN
    (IF d = 9 THEN NEO_RP ELSE IF d = 5 THEN NEO_RL ELSE IF d = 4 THEN NEO_LP
     ELSE IF d = 7 THEN NEO_LR ELSE IF d = 3 THEN NEO_PR
     ELSE IF d = 8 THEN NEO_PL ELSE NEO_NONE)
  ELSE
    (IF d = 3 THEN NEO_RP ELSE IF d = 7 THEN NEO_RL ELSE IF d = 8 THEN NEO_LP
     ELSE IF d = 5 THEN NEO_LR ELSE IF d = 9 THEN NEO_PR
     ELSE IF d = 4 THEN NEO_PL ELSE NEO_NONE)

\* C27: the transformation tag is none unless both chords are pure major or
\* minor triads; for triads it is P, L (major r -> minor r+4, minor r ->
\* major r+8) or R (major r -> minor r+9, minor r -> major r+3) when one
\* step leads from A to B, else the two-step tag XY (X first, then Y) whose
\* path leads from A to B: from major r, RP, RL, LP, LR, PR, PL for the major
\* triads on r+9, r+5, r+4, r+7, r+3, r+8.
C27_Transformation ==
  lastOp.op = "compute" =>
    IF lastOp.a.type \in {TYPE_MAJOR, TYPE_MINOR}
         /\ lastOp.b.type \in {TYPE_MAJOR, TYPE_MINOR}
    THEN lastOp.ret.transformation =
           NeoTable(lastOp.a.type = TYPE_MAJOR, lastOp.b.type = TYPE_MAJOR,
                    (lastOp.b.root - lastOp.a.root + 12) % 12)
    ELSE lastOp.ret.transformation = NEO_NONE

\* C27 witness: from A major to D major (the root wraps past 11) the tag is RL.
C27_Witness ==
  /\ lastOp.op = "compute"
  /\ lastOp.a = [root |-> 9, type |-> TYPE_MAJOR]
  /\ lastOp.b = [root |-> 2, type |-> TYPE_MAJOR]
  /\ lastOp.ret.transformation = NEO_RL

\* The callbacks of kind ev in the trace were delivered to the std::function
\* callback alone.
OnlyFn(ev) == \A i \in EventsOf(trace, ev) : trace[i].to = << "fn" >>

\* C28: when both a function-pointer callback and a std::function callback
\* are registered for the same event, one occurrence of the event invokes
\* the std::function callback and does not invoke the function-pointer
\* callback.
C28_FnPrecedence ==
  /\ (chordCb_ /\ chordFn_) => OnlyFn("chord")
  /\ (fieldCb_ /\ fieldFn_) => OnlyFn("field")
  /\ (noteCb_ /\ noteFn_) => OnlyFn("note")

\* The last operation was a call of one of the two Flex Data encoders.
Encoded == lastOp.op \in {"chordName", "keySignature"}

\* C29: chordName and keySignature produce a fixed layout for every input:
\* wordCount is 4; word 0 has tag 0xD in bits 31..28, group & 0xF in bits
\* 27..24, format 0 and addressing 1 in bits 23..20, channel & 0xF in bits
\* 19..16, status bank 0 and status 0x06 (chord name) or 0x05 (key
\* signature) in bits 7..0; words 2 and 3 are 0; a group or channel above
\* 15 is masked to 4 bits and alters no other field.
C29_FlexLayout ==
  Encoded =>
    /\ lastOp.ret.wordCount = 4
    /\ Bits(lastOp.ret.words[1], 28, 4) = 13
    /\ Bits(lastOp.ret.words[1], 24, 4) = lastOp.b[1] % 16
    /\ Bits(lastOp.ret.words[1], 22, 2) = 0
    /\ Bits(lastOp.ret.words[1], 20, 2) = 1
    /\ Bits(lastOp.ret.words[1], 16, 4) = lastOp.b[2] % 16
    /\ Bits(lastOp.ret.words[1], 8, 8) = 0
    /\ Bits(lastOp.ret.words[1], 0, 8) =
         (IF lastOp.op = "chordName" THEN 6 ELSE 5)
    /\ lastOp.ret.words[1][1] < 65536 /\ lastOp.ret.words[1][2] < 65536
    /\ lastOp.ret.words[3] = << 0, 0 >>
    /\ lastOp.ret.words[4] = << 0, 0 >>

\* C29 witness: a key signature sent with group 37 and channel 255, which
\* land in word 0 as 5 and 15.
C29_Witness ==
  /\ lastOp.op = "keySignature"
  /\ lastOp.b = << 37, 255 >>
  /\ lastOp.ret.words[1] = << 13 * 4096 + 5 * 256 + 16 + 15, 5 >>

\* The chord type names of the encoder's table, and the scale types with a
\* mode of their own.
KnownTypeNames == {TABLE[i][1] : i \in 1..Len(TABLE)} \cup {""}

KnownScaleTypes ==
  {SCALE_MAJOR, SCALE_NATURAL_MINOR, SCALE_HARMONIC_MINOR, SCALE_MELODIC_MINOR}

\* The type-or-mode byte of word 1.
CodeOf(ump) == Bits(ump.words[2], 16, 8)

\* C30: a chord quality that is not in the encoder's quality table, and a
\* scale type that has no mode mapping, is encoded with a code reserved for
\* 'unknown' that no known quality or scale type is encoded with.
C30_UnknownCode ==
  /\ (lastOp.op = "chordName" /\ lastOp.a.type \notin KnownTypeNames) =>
       \A t \in KnownTypeNames :
         CodeOf(lastOp.ret) # CodeOf(chordName([lastOp.a EXCEPT !.type = t], 0, 0))
  /\ (lastOp.op = "keySignature" /\ lastOp.a.parent \notin KnownScaleTypes) =>
       \A t \in KnownScaleTypes :
         CodeOf(lastOp.ret) # CodeOf(keySignature([lastOp.a EXCEPT !.parent = t], 0, 0))

\* C32: re-pressing a sustained key un-sustains it: noteOn(p) of a pitch that
\* is active and marked sustained, with the sustain latch set, clears p's
\* sustained mark, so the following sustainOff() keeps p in the active set.
C32_Repress ==
  [][ LET i == IndexOf(held_, lastOp'.a)
      IN (lastOp'.op = "noteOn" /\ sustainHeld_ /\ i # 0 /\ sustained_[i]) =>
           /\ held_' = held_
           /\ ~sustained_'[i]
           /\ lastOp'.a \in Range(sustainOff(Mon').held) ]_vars

\* C33: noteOn re-evaluates only if the active set changed: a noteOn that
\* leaves the active set as it was (the pitch is already active, or it is new
\* and dropped because 16 pitches are active) calls neither the naming oracle
\* nor the deduction oracle.
C33_NoteOnReevaluates ==
  [][ (lastOp'.op = "noteOn" /\ held_' = held_) =>
        /\ ~Fires(trace', "identify")
        /\ ~Fires(trace', "deduce") ]_vars

\* The active entries of held, each with its sustained flag.
Entries(held, sust) == [i \in 1..Len(held) |-> << held[i], sust[i] >>]

\* s is t with some entries left out, the others in their order.
RECURSIVE IsSubsequence(_, _)
IsSubsequence(s, t) ==
  IF s = << >> THEN TRUE
  ELSE IF t = << >> THEN FALSE
  ELSE IF Head(s) = Head(t) THEN IsSubsequence(Tail(s), Tail(t))
  ELSE IsSubsequence(s, Tail(t))

\* C34: the active set never holds a pitch twice and is ordered by
\* activation: noteOn of a new pitch appends it, unmarked, behind the entries
\* already there, noteOn of an active pitch leaves the set as it is, and
\* noteOff and sustainOff only remove entries, the remaining ones keeping
\* their relative order and their sustained flags, so the first entry is the
\* earliest-activated pitch still active.
C34_NoDuplicate ==
  \A i, j \in 1..Len(held_) : held_[i] = held_[j] => i = j

C34_Ordered ==
  LET old == Entries(held_, sustained_)
      new == Entries(held_', sustained_')
  IN /\ (lastOp'.op = "noteOn") =>
          IF lastOp'.a \in Range(held_) \/ Len(held_) = MAX_HELD
          THEN new = old
          ELSE new = Append(old, << lastOp'.a, FALSE >>)
     /\ (lastOp'.op = "noteOff" /\ ~sustainHeld_) =>
          /\ IsSubsequence(new, old)
          /\ Range(held_') = Range(held_) \ {lastOp'.a}
     /\ (lastOp'.op = "noteOff" /\ sustainHeld_) => held_' = held_
     /\ (lastOp'.op = "sustainOff") =>
          /\ IsSubsequence(new, old)
          /\ held_' = Unmarked(held_, sustained_, 1)
     /\ (lastOp'.op = "sustainOn") => new = old

C34_ActiveSet == []C34_NoDuplicate /\ [][C34_Ordered]_vars

\* C34 witness: 64 was released from 60, 64, 67 pressed in that order, which
\* turned the chord CM into C5 and left 60 in front of 67.
C34_Witness ==
  /\ lastOp.op = "noteOff" /\ lastOp.a = 64
  /\ held_ = << 60, 67 >>
  /\ ~sustainHeld_
  /\ \E i \in EventsOf(trace, "chord") :
       trace[i].arg = [root |-> 0, type |-> 25]

\* C40: whenever the sustain latch is off, no active entry is marked
\* sustained; an entry appended by noteOn starts unmarked, whatever flag an
\* earlier removal left in its slot.
C40_LatchOff ==
  ~sustainHeld_ => \A i \in 1..heldCount_ : ~sustained_[i]

C40_Appended ==
  (lastOp'.op = "noteOn" /\ Len(held_') = Len(held_) + 1) =>
     ~sustained_'[Len(held_')]

C40_SustainedFlags == []C40_LatchOff /\ [][C40_Appended]_vars

\* C40 witness: sustainOff removed a marked entry and left its flag set
\* beyond the active count, with the latch off and a note still active.
C40_Witness ==
  /\ lastOp.op = "sustainOff"
  /\ ~sustainHeld_
  /\ heldCount_ >= 1
  /\ sustained_[heldCount_ + 1]

\* C39: after every operation the chord cache agrees with the naming oracle
\* on the current active set: hasChord() is true exactly when at least two
\* pitches are active and the oracle names them, and the cached chord is then
\* the oracle's answer; so an operation that leaves the active set as it was
\* fires neither chord-changed nor field-changed, also when it re-evaluates.
C39_Cached ==
  /\ chordValid_ = (Len(held_) >= 2 /\ identify(held_).ok)
  /\ chordValid_ => chord_ = identify(held_).chord

C39_Unchanged ==
  (held_' = held_) => (~Fires(trace', "chord") /\ ~Fires(trace', "field"))

C39_CacheConsistency == []C39_Cached /\ [][C39_Unchanged]_vars

\* C39 witness: with the chord CM cached for 60, 64, 67 and the latch off,
\* noteOff of the inactive 63 called both oracles and fired no callback.
C39_Witness ==
  /\ lastOp.op = "noteOff" /\ lastOp.a = 63
  /\ ~sustainHeld_
  /\ held_ = << 60, 64, 67 >>
  /\ chordValid_ /\ chord_ = [root |-> 0, type |-> 0]
  /\ Fires(trace, "identify") /\ Fires(trace, "deduce")
  /\ ~Fires(trace, "chord") /\ ~Fires(trace, "field")

\* The rotations n in 0..11 that carry bit i of the mask A to bit
\* (i + n) mod 12 of the mask B, for every i.
Rotations(A, B) == {n \in 0..11 : {(i + n) % 12 : i \in A} = B}

\* C38: the transposition index of a comparison is the smallest n in 0..11
\* whose upward rotation of A's pitch-class mask equals B's mask, and -1 when
\* there is none; it is 0 whenever the two masks are equal, and it is
\* defined exactly when B's mask is a rotation of A's.
C38_TranspositionIndex ==
  lastOp.op = "compute" =>
    LET A == pcMaskFromChord_(lastOp.a)
        B == pcMaskFromChord_(lastOp.b)
        t == lastOp.ret.transposition
    IN /\ t \in Rotations(A, B) \cup {-1}
       /\ (t = -1) <=> (Rotations(A, B) = {})
       /\ \A n \in Rotations(A, B) : t <= n
       /\ (A = B) => t = 0

\* C38 witness: C aug compared with E aug: the two masks are equal, the
\* rotations 0, 4 and 8 all carry one onto the other, and the index is 0.
C38_Witness ==
  /\ lastOp.op = "compute"
  /\ lastOp.a = [root |-> 0, type |-> 16]
  /\ lastOp.b = [root |-> 4, type |-> 16]
  /\ Rotations(pcMaskFromChord_(lastOp.a), pcMaskFromChord_(lastOp.b))
       = {0, 4, 8}
  /\ lastOp.ret.transposition = 0

\* C35, boundary: a status byte or an escape-start fed while one data byte
\* of a two-data-byte message is buffered discards it: nothing is pending
\* afterwards and nothing is dispatched.
C35_Boundary ==
  (lastOp'.op = "feed" /\ count_ = 1 /\ inSysex_ = 0
     /\ lastOp'.a >= 128 /\ lastOp'.a <= SYSEX_START) =>
       /\ count_' = 0
       /\ dispatched' = dispatched
       /\ ~lastOp'.ret

\* C35, first data byte: a data byte processed with nothing pending under a
\* two-data-byte status is buffered as the first data byte and dispatches
\* nothing.
C35_FirstByte ==
  (lastOp'.op = "feed" /\ lastOp'.a < 128 /\ count_ = 0 /\ inSysex_ = 0
     /\ status_ # 0 /\ dataLength_(status_) = 2) =>
       /\ count_' = 1 /\ data1_' = lastOp'.a
       /\ dispatched' = dispatched

\* The stream s without the bytes that leave a pending message alone:
\* real-time bytes and escape-end bytes.
WithoutTransparent(s) ==
  SelectSeq(s, LAMBDA b : ~IsRealTime(b) /\ b # SYSEX_END)

\* C35, no completion across a boundary: the first data byte of every
\* dispatched two-data-byte message is the byte fed just before the byte
\* that completed it, real-time and escape-end bytes aside, so no status
\* byte and no escape-start lies between the two.
C35_Adjacent ==
  LET w == WithoutTransparent(fed)
  IN (lastOp'.op = "feed" /\ dispatched' # dispatched
        /\ dataLength_(status_) = 2) =>
       /\ w # << >> /\ w[Len(w)] < 128
       /\ dispatched' =
            Append(dispatched, << status_, w[Len(w)], lastOp'.a >>)

C36_Absorbed ==
  (lastOp'.op = "feed" /\ inSysex_ # 0 /\ lastOp'.a # SYSEX_END) =>
     /\ status_' = status_
     /\ inSysex_' # 0
     /\ dispatched' = dispatched
     /\ ~lastOp'.ret
     /\ UNCHANGED monState

\* C36, exit: the escape is left only by the escape-end byte or by reset().
C36_Exit ==
  (inSysex_ # 0 /\ inSysex_' = 0) =>
     \/ (lastOp'.op = "feed" /\ lastOp'.a = SYSEX_END)
     \/ lastOp'.op = "parserReset"

\* C36, running status: the escape-start and the escape-end leave the running
\* status alone, so the data bytes after a terminated escape are read under
\* the status in effect before it.
C36_StatusKept ==
  (lastOp'.op = "feed" /\ lastOp'.a \in {SYSEX_START, SYSEX_END}) =>
     /\ status_' = status_
     /\ dispatched' = dispatched

\* C36, truncated escape: while the escape is open nothing is dispatched.
C36_Truncated == (inSysex_ # 0 /\ inSysex_' # 0) => dispatched' = dispatched

\* C36: inside an escape everything but the escape-end is absorbed and the
\* running status is kept; the escape ends only with 0xF7 or reset(), so a
\* truncated escape dispatches nothing more, and after a terminated one the
\* data bytes are read under the running status from before the escape.
\* The bytes 0x90 0xF0 0x80 1 0xF7 60 100 dispatch Note-On (60, 100)
\* only, and without the 0xF7 they dispatch nothing.
C36_EscapeAbsorbs ==
  /\ [][C36_Absorbed /\ C36_Exit /\ C36_StatusKept /\ C36_Truncated]_vars
  /\ Replay(<< NOTE_ON, SYSEX_START, NOTE_OFF, 1, SYSEX_END, 60, 100 >>, 1,
            parserReset(Parser)) = << << NOTE_ON, 60, 100 >> >>
  /\ Replay(<< NOTE_ON, SYSEX_START, NOTE_OFF, 1, 60, 100 >>, 1,
            parserReset(Parser)) = << >>

\* C36 witness: an escape opened under Note-On running status absorbed a
\* Note-Off status byte and was terminated; the running status is still
\* Note-On.
C36_Witness ==
  /\ fed = << NOTE_ON, SYSEX_START, NOTE_OFF, SYSEX_END >>
  /\ status_ = NOTE_ON /\ inSysex_ = 0
  /\ dispatched = << >>

\* A channel message the byte dispatcher routes to the Monitor: Note-On,
\* Note-Off, and Control Change of controller 64 or 123.
HandledKind(msg) ==
  \/ TypeOf(msg[1]) \in {NOTE_ON, NOTE_OFF}
  \/ (TypeOf(msg[1]) = CONTROL_CHANGE /\ msg[2] \in {64, 123})

\* C37, one data byte: under program-change or channel-pressure running
\* status each data byte is dispatched at once as (status, byte, 0) and
\* nothing is buffered.
C37_OneByte ==
  (lastOp'.op = "feed" /\ lastOp'.a < 128
     /\ TypeOf(status_) \in {PROGRAM_CHANGE, CHANNEL_PRESSURE}) =>
       /\ dispatched' = Append(dispatched, << status_, lastOp'.a, 0 >>)
       /\ count_ = 0 /\ count_' = 0 /\ data1_' = data1_

\* C37, two data bytes: under the five other kinds the first data byte is
\* buffered without a dispatch and the second dispatches the pair.
C37_TwoBytes ==
  (lastOp'.op = "feed" /\ lastOp'.a < 128 /\ TypeOf(status_) \in TwoDataKinds) =>
     IF count_ = 0
     THEN /\ dispatched' = dispatched
          /\ count_' = 1 /\ data1_' = lastOp'.a
     ELSE /\ dispatched' = Append(dispatched, << status_, data1_, lastOp'.a >>)
          /\ count_' = 0

\* C37, return value: feed returns true exactly for the byte that completes
\* a message of a handled kind; a message of another kind leaves the Monitor
\* as it was.
C37_Returns ==
  (lastOp'.op = "feed") =>
     /\ lastOp'.ret <=>
          /\ Len(dispatched') = Len(dispatched) + 1
          /\ HandledKind(dispatched'[Len(dispatched')])
     /\ ~lastOp'.ret => UNCHANGED monState

\* C37: message framing by kind: one data byte per message under
\* program-change and channel-pressure status, two under note-off, note-on,
\* aftertouch, control-change and pitch-bend; feed returns true exactly for
\* the byte completing a handled message and skipped messages leave the
\* Monitor unchanged.
C37_Framing == [][C37_OneByte /\ C37_TwoBytes /\ C37_Returns]_vars

\* C37 witness: two channel-pressure messages went out under one status,
\* each on its single data byte, and feed returned false.
C37_Witness ==
  /\ fed = << CHANNEL_PRESSURE, 60, 64 >>
  /\ dispatched = << << CHANNEL_PRESSURE, 60, 0 >>, << CHANNEL_PRESSURE, 64, 0 >> >>
  /\ lastOp.op = "feed" /\ ~lastOp.ret
  /\ count_ = 0 /\ heldCount_ = 0

\* The "leave" that closes the callback body entered at position i.
LeaveOf(t, i) == Least({j \in EventsOf(t, "leave") : j > i})

\* C31: no two re-evaluations of one Monitor interleave: a re-evaluation
\* runs to completion, the callbacks it fires included, before another one
\* starts, also when a chord-changed or field-changed callback issues an
\* intent on the Monitor: no oracle is called and no callback is fired for
\* another re-evaluation while a callback of the running one has not
\* returned.
C31_NoInterleaving ==
  \A i \in EventsOf(trace, "enter") :
    \A k \in (i + 1)..(LeaveOf(trace, i) - 1) :
      trace[k].ev \notin {"identify", "deduce", "chord", "field"}

====
